---- MODULE Spec2Model ----
(***************************************************************************)
(* Model of the codex-session-gateway: the Store (sqlite tables sessions,  *)
(* runs, messages), the per-bot SessionManager (in-memory sessions with    *)
(* write-through), and the per-bot Orchestrator (active-task map guarded   *)
(* by an asyncio.Lock, run tasks, cancellation).                           *)
(*                                                                         *)
(* Granularity: one action per step of a coroutine between two suspension  *)
(* points of the asyncio event loop.  Awaits that never suspend (the       *)
(* SessionManager lock is never held across an await, so acquiring it      *)
(* never yields) are part of the step that contains them.                  *)
(*                                                                         *)
(* The orchestrator passes a bot id as an extra positional argument to the *)
(* SessionManager and Store methods; the methods in src/ take no such      *)
(* parameter and hold no bot column, so the model drops the argument where *)
(* the callee has no use for it.                                           *)
(***************************************************************************)
EXTENDS Integers, Sequences, FiniteSets, TLC

\* ---- bounds ----
MaxCalls == 3       \* external submit_prompt / cancel_run invocations
MaxSessions == 3    \* session ids handed out by new_id("sess")
MaxTime == 1        \* readings of time.time() that differ
MaxOps == 3         \* SessionManager / Store level operations in SpecStore
MaxPollOps == 6     \* operations of one bot in SpecPoll
MaxLines == 3       \* lines the agent appends to the followed event log
MaxRotations == 1   \* times the followed event log is deleted and recreated
MaxClock == 2       \* readings of time.monotonic() during one CodexRunner.run
MaxOutputs == 1     \* lines the child and the event log produce during one run
MaxLen == 3         \* characters of a text handed to the Chat Sender
MaxChunk == 5       \* Config.message_chunk_limit
MaxSends == 3       \* TelegramStreamSender.send calls on one sender
MaxPushes == 3      \* StreamBroker.push calls during one run
MaxText == 4        \* characters of a text handed to the dedup normalization
MaxWords == 3       \* words of an agent-reasoning text

Users == {1}
Bots == {"bot-a", "bot-b"}
MainBot == "bot-a"
Texts == {1, 2}       \* 1 = "a", 2 = "b"
LogTexts == {1, 3}    \* 3 = "a \r\nb" style twin of 1: same text after normalization
ResumeIds == {1}
ChatIds == {1}

None == -1

\* ---- models.py ----
IDLE == "idle"
RUNNING == "running"
DONE == "done"
ERROR == "error"
CANCELED == "canceled"
TIMEOUT == "timeout"
TerminalStatuses == {DONE, ERROR, CANCELED, TIMEOUT}

VARIABLES
    now,             \* time.time()
    sessions,        \* SessionManager._sessions, one dict per bot
    next_sid,        \* next fresh id of new_id("sess")
    store_sessions,  \* table sessions (set of rows, key session_id)
    store_runs,      \* table runs (set of rows, key run_id)
    store_messages,  \* table messages: prompt -> number of rows
    active_tasks,    \* Orchestrator._active_tasks of MainBot
    lock_holder,     \* Orchestrator._active_lock: who holds it
    lock_waiters,    \* Orchestrator._active_lock: FIFO of waiters
    tasks,           \* asyncio tasks running _run_once, by task id
    calls,           \* external submit_prompt / cancel_run coroutines in flight
    ncalls,          \* number of external invocations so far
    accepted,        \* history: prompts in order of submit_prompt entry, per user
    runner_calls,    \* history: prompts in order of runner.run entry, per user
    created,         \* history: sessions created, with their bot and process epoch
    epoch,           \* history: number of process restarts
    lookup_log,      \* history: the last recovery lookup and the row it returned
    ops,             \* history: number of SpecStore operations performed
    jsonl_file,      \* the event log found for each bot's resume id
    jsonl_states,    \* Orchestrator._jsonl_states, one cursor per bot
    poll_out,        \* what the last poll_external_results returned
    budget,          \* history: the bound on ops of the specification at hand
    user_context,    \* TelegramAdapter._user_context, one dict per bot
    chat,            \* what each bot's periodic tick sent to the chat, in order
    tick_log,        \* history: each bot's last _sync_jsonl_tick and what it held
    bind_log,        \* history: each bot's first chat binding and the poll after it
    tail_files,      \* event-log files of the followed resume id, by inode
    tail_path,       \* inode of the file _find_session_file returns, or None
    tailer,          \* locals of CodexRunner._tail_jsonl_events
    tail_out,        \* history: the texts the tailer passed to emit, in order
    rcfg,            \* Config: the timeouts and switches CodexRunner.run reads
    runner,          \* locals of one CodexRunner.run call, the child, the clock
    run_outputs,     \* history: the on_output calls of the run, in order
    run_status,      \* history: the on_status calls of the run, in order
    agent_final,     \* the final message the agent left: capture file, event log
    sender,          \* TelegramStreamSender: _message_id, _full_text
    tg,              \* the chat transport: the next message id it hands out
    send_log,        \* history: the last send call, what it sent and edited
    split_log,       \* history: the last text split and the chunks returned
    broker,          \* StreamBroker: _buffer, _flush_task and the task's position
    stopper,         \* the coroutine running StreamBroker.stop()
    workers,         \* runner workers that may still call on_output
    delivered,       \* history: the send_func calls of the broker, in order
    push_log,        \* history: the lines pushed, with the phase of stop()
    auth_log,        \* history: the updates handled, the calls and notices they caused
    capture,         \* one CodexRunner.run call and its final-message capture file
    fn_log           \* history: the last call of a pure function, input and result

vars == <<now, sessions, next_sid, store_sessions, store_runs, store_messages,
          active_tasks, lock_holder, lock_waiters, tasks, calls, ncalls,
          accepted, runner_calls, created, epoch, lookup_log, ops, jsonl_file,
          jsonl_states, poll_out, budget, user_context, chat, tick_log,
          bind_log, tail_files, tail_path, tailer, tail_out, rcfg, runner,
          run_outputs, run_status, agent_final, sender, tg, send_log,
          split_log, broker, stopper, workers, delivered, push_log, auth_log,
          capture, fn_log>>

orchVars == <<active_tasks, lock_holder, lock_waiters, tasks, calls, ncalls,
              accepted, runner_calls, store_runs, store_messages>>
adapterVars == <<budget, user_context, chat, tick_log, bind_log>>
tailVars == <<tail_files, tail_path, tailer, tail_out>>
runVars == <<rcfg, runner, run_outputs, run_status, agent_final>>
sendVars == <<sender, tg, send_log, split_log>>
brokerVars == <<broker, stopper, workers, delivered, push_log>>
authVars == <<auth_log>>
fnVars == <<fn_log>>
captureVars == <<capture>>
auxVars == <<tailVars, runVars, sendVars, brokerVars, authVars, fnVars,
             captureVars>>
storeVars == <<epoch, lookup_log, ops, jsonl_file, jsonl_states, poll_out,
               adapterVars, auxVars>>
baseVars == <<now, sessions, next_sid, store_sessions, created, epoch, lookup_log,
              ops, jsonl_file, jsonl_states, poll_out, adapterVars, orchVars>>
exceptTail == <<baseVars, runVars, sendVars, brokerVars, authVars, fnVars,
                captureVars>>
exceptRun == <<baseVars, tailVars, sendVars, brokerVars, authVars, fnVars,
                captureVars>>
exceptSend == <<baseVars, tailVars, runVars, brokerVars, authVars, fnVars,
                captureVars>>
exceptBroker == <<baseVars, tailVars, runVars, sendVars, authVars, fnVars,
                captureVars>>
exceptFn == <<baseVars, tailVars, runVars, sendVars, brokerVars, authVars,
              captureVars>>
exceptCapture == <<baseVars, tailVars, runVars, sendVars, brokerVars, authVars,
                   fnVars>>
exceptDedup == <<sessions, next_sid, store_sessions, created, epoch, lookup_log,
                 ops, jsonl_file, jsonl_states, poll_out, adapterVars, orchVars,
                 tailVars, runVars, sendVars, brokerVars, authVars, captureVars>>

\* ---------------------------------------------------------------------------
\* models.Session / Store rows
\* ---------------------------------------------------------------------------
Session(sid, user_id) ==
    [session_id |-> sid, user_id |-> user_id, bot_id |-> "default",
     state |-> IDLE, current_run_id |-> None, resume_id |-> None,
     last_result |-> None, jsonl_last_ts |-> None, jsonl_last_hash |-> None,
     last_chat_id |-> None, queue |-> <<>>, last_activity |-> now]

Run(run_id, sid, prompt) ==
    [run_id |-> run_id, session_id |-> sid, prompt |-> prompt,
     status |-> RUNNING, finished_at |-> None, error |-> "none"]

\* Store.record_session: INSERT OR REPLACE keyed by session_id
record_session(db, s) ==
    {r \in db : r.session_id # s.session_id} \cup
    {[session_id |-> s.session_id, user_id |-> s.user_id, state |-> s.state,
      resume_id |-> s.resume_id, last_result |-> s.last_result,
      jsonl_last_ts |-> s.jsonl_last_ts, jsonl_last_hash |-> s.jsonl_last_hash,
      last_chat_id |-> s.last_chat_id, last_activity |-> s.last_activity]}

update_session_state(db, sid, state) ==
    {IF r.session_id = sid
     THEN [r EXCEPT !.state = state, !.last_activity = now] ELSE r : r \in db}

update_session_resume_id(db, sid, resume_id) ==
    {IF r.session_id = sid
     THEN [r EXCEPT !.resume_id = resume_id, !.last_activity = now] ELSE r : r \in db}

update_session_last_result(db, sid, last_result) ==
    {IF r.session_id = sid
     THEN [r EXCEPT !.last_result = last_result, !.last_activity = now] ELSE r : r \in db}

update_session_jsonl_state(db, sid, last_ts, last_hash) ==
    {IF r.session_id = sid
     THEN [r EXCEPT !.jsonl_last_ts = last_ts, !.jsonl_last_hash = last_hash,
                    !.last_activity = now]
     ELSE r : r \in db}

update_session_chat_id(db, sid, chat_id) ==
    {IF r.session_id = sid
     THEN [r EXCEPT !.last_chat_id = chat_id, !.last_activity = now] ELSE r : r \in db}

\* ORDER BY last_activity DESC LIMIT 1: any row of maximal last_activity
Latest(rows) == {r \in rows : \A q \in rows : q.last_activity <= r.last_activity}

\* Store.get_last_result_by_user_id: the values the query can return
get_last_result_by_user_id(db, user_id) ==
    LET rows == {r \in db : r.user_id = user_id /\ r.last_result # None}
    IN IF rows = {} THEN {None} ELSE {r.last_result : r \in Latest(rows)}

\* Store.get_jsonl_state_by_user_id: the (ts, hash) pairs the query can return
get_jsonl_state_by_user_id(db, user_id) ==
    LET rows == {r \in db : r.user_id = user_id}
    IN IF rows = {} THEN {<<None, None>>}
       ELSE {<<r.jsonl_last_ts, r.jsonl_last_hash>> : r \in Latest(rows)}

\* Store.record_run / Store.update_run
record_run(rdb, run) == rdb \cup {run}

update_run(rdb, run_id, status, finished_at, error) ==
    {IF r.run_id = run_id
     THEN [r EXCEPT !.status = status, !.finished_at = finished_at, !.error = error]
     ELSE r : r \in rdb}

\* Store.record_message
record_message(mdb, prompt) ==
    IF prompt \in DOMAIN mdb THEN [mdb EXCEPT ![prompt] = @ + 1]
    ELSE mdb @@ (prompt :> 1)

\* ---------------------------------------------------------------------------
\* SessionManager.  w = [mem, db, sid]: the manager's dict, the sessions
\* table and the id source, threaded through a handler's calls.
\* ---------------------------------------------------------------------------
World(b) == [mem |-> sessions[b], db |-> store_sessions, sid |-> next_sid]

\* a load-or-create that never finds the cached session
get_or_create_locked_always_new(w, u) ==
    LET s == Session(w.sid, u)
    IN [mem |-> (u :> s) @@ w.mem, db |-> record_session(w.db, s),
        sid |-> w.sid + 1]

get_or_create_locked(w, u) ==
    IF u \in DOMAIN w.mem THEN w
    ELSE LET s == Session(w.sid, u)
         IN [mem |-> w.mem @@ (u :> s), db |-> record_session(w.db, s),
             sid |-> w.sid + 1]

Touch(w, u) == [w EXCEPT !.mem[u].last_activity = now]

get_or_create(w, u) == Touch(get_or_create_locked(w, u), u)

set_state(w, u, state) ==
    LET w1 == get_or_create_locked(w, u)
    IN [Touch(w1, u) EXCEPT !.mem[u].state = state,
            !.db = update_session_state(w1.db, w1.mem[u].session_id, state)]

set_current_run(w, u, run_id) ==
    LET w1 == get_or_create_locked(w, u)
    IN [Touch(w1, u) EXCEPT !.mem[u].current_run_id = run_id]

set_resume_id(w, u, resume_id) ==
    LET w1 == get_or_create_locked(w, u)
    IN [Touch(w1, u) EXCEPT !.mem[u].resume_id = resume_id,
            !.db = update_session_resume_id(w1.db, w1.mem[u].session_id, resume_id)]

set_last_result(w, u, last_result) ==
    LET w1 == get_or_create_locked(w, u)
    IN [Touch(w1, u) EXCEPT !.mem[u].last_result = last_result,
            !.db = update_session_last_result(w1.db, w1.mem[u].session_id, last_result)]

set_jsonl_state(w, u, last_ts, last_hash) ==
    LET w1 == get_or_create_locked(w, u)
    IN [Touch(w1, u) EXCEPT !.mem[u].jsonl_last_ts = last_ts,
            !.mem[u].jsonl_last_hash = last_hash,
            !.db = update_session_jsonl_state(w1.db, w1.mem[u].session_id,
                                              last_ts, last_hash)]

set_chat_id(w, u, chat_id) ==
    LET w1 == get_or_create_locked(w, u)
        sid == w1.mem[u].session_id
        w2 == [Touch(w1, u) EXCEPT !.mem[u].last_chat_id = chat_id,
                   !.db = update_session_chat_id(w1.db, sid, chat_id)]
    IN IF w2.mem[u].jsonl_last_ts = None /\ w2.mem[u].jsonl_last_hash = None
       THEN [w2 EXCEPT !.mem[u].jsonl_last_ts = now,
                 !.db = update_session_jsonl_state(w2.db, sid, now,
                                                   w2.mem[u].jsonl_last_hash)]
       ELSE w2

enqueue_prompt(w, u, prompt) ==
    LET w1 == get_or_create_locked(w, u)
    IN [Touch(w1, u) EXCEPT !.mem[u].queue = Append(@, prompt)]

\* the session state after dequeue_prompt, and the prompt it returns
dequeue_prompt(w, u) ==
    LET w1 == get_or_create_locked(w, u)
    IN IF w1.mem[u].queue = <<>> THEN w1
       ELSE [Touch(w1, u) EXCEPT !.mem[u].queue = Tail(@)]

dequeued(w, u) ==
    LET w1 == get_or_create_locked(w, u)
    IN IF w1.mem[u].queue = <<>> THEN None ELSE Head(w1.mem[u].queue)

peek_queue(w, u) == Len(get_or_create_locked(w, u).mem[u].queue)

\* the manager can serve u: the session exists or a fresh id is left
CanServe(b, u) == u \in DOMAIN sessions[b] \/ next_sid <= MaxSessions

Commit(b, w) ==
    /\ sessions' = [sessions EXCEPT ![b] = w.mem]
    /\ store_sessions' = w.db
    /\ next_sid' = w.sid
    /\ created' = created \cup
          {[sid |-> s, bot |-> b, epoch |-> epoch,
            user |-> CHOOSE u \in DOMAIN w.mem : w.mem[u].session_id = s] :
           s \in next_sid..(w.sid - 1)}

\* ---------------------------------------------------------------------------
\* Orchestrator of MainBot: asyncio tasks, the active-task map and its lock
\* ---------------------------------------------------------------------------
NoProc == <<"none", 0>>
CallProc(c) == <<"call", c>>
TaskProc(t) == <<"task", t>>

Remove(seq, x) == SelectSeq(seq, LAMBDA y : y # x)

\* asyncio.Lock.acquire returns at once iff unlocked and nobody waits
LockFree(lh, lw) == lh = NoProc /\ lw = <<>>
\* a waiter resumes when the lock was released and it is first in line
LockGranted(self) ==
    lock_holder = NoProc /\ lock_waiters # <<>> /\ Head(lock_waiters) = self

\* an entry of a task's events: what its run showed in the chat or stored
Event(kind, t) == [kind |-> kind, run |-> t]
NoEvents == <<>>

\* callbacks names the submit_prompt call whose send_status and send_stream
\* were handed to _run_once
NewTask(u, p, callbacks) ==
    [user |-> u, prompt |-> p, callbacks |-> callbacks, pc |-> "created", cancel |-> FALSE, events |-> <<>>,
     cancel_requested |-> FALSE, cancel_at |-> "none", status |-> RUNNING, error |-> "none",
     finished_at |-> None, final |-> None, broker |-> "none",
     held |-> None, exc |-> "none", ended |-> "no"]

NextId(f) == Cardinality(DOMAIN f) + 1

\* task.done()
TaskDone(tk, t) == tk[t].pc = "done"

\* submit_prompt that starts a run whether or not one is active
submit_locked_no_gate(w, at, tk, u, p, callbacks) ==
    LET t == NextId(tk)
    IN [w |-> w, at |-> (u :> t) @@ at, tk |-> tk @@ (t :> NewTask(u, p, callbacks)),
        queued |-> FALSE]

\* submit_prompt, the body under self._active_lock
submit_locked(w, at, tk, u, p, callbacks) ==
    IF u \in DOMAIN at /\ ~TaskDone(tk, at[u])
    THEN [w |-> enqueue_prompt(w, u, p), at |-> at, tk |-> tk, queued |-> TRUE]
    ELSE LET t == NextId(tk)
         IN [w |-> w, at |-> (u :> t) @@ at, tk |-> tk @@ (t :> NewTask(u, p, callbacks)),
             queued |-> FALSE]

\* cancel_run, the body under self._active_lock: task.cancel()
cancel_locked(at, tk, u) ==
    IF u \in DOMAIN at /\ ~TaskDone(tk, at[u])
    THEN [tk EXCEPT ![at[u]].cancel = TRUE, ![at[u]].cancel_requested = TRUE,
                    ![at[u]].cancel_at = IF @ = "none" THEN tk[at[u]].pc ELSE @]
    ELSE tk

\* self._active_tasks.pop(user_id, None)
pop_active(at, u) == [x \in DOMAIN at \ {u} |-> at[x]]

\* _run_once, classification of a runner call that returned
classify(status_override, return_code) ==
    IF status_override = "timeout" THEN [status |-> TIMEOUT, error |-> "timeout"]
    ELSE IF status_override = "canceled" THEN [status |-> CANCELED, error |-> "canceled"]
    ELSE IF return_code # 0 THEN [status |-> ERROR, error |-> "exit_code"]
    ELSE [status |-> DONE, error |-> "none"]

\* what CodexRunner.run can hand back: (status token, exit code), or OSError
RunnerReturns == [so : {"none", "timeout"}, rc : {0, 1}]

\* the coroutine is over: its locals are gone, the task is done
Finish(tk, t, how) ==
    [tk EXCEPT ![t].pc = "done", ![t].cancel = FALSE, ![t].ended = how,
               ![t].callbacks = None,
               ![t].status = RUNNING, ![t].error = "none",
               ![t].finished_at = None, ![t].final = None, ![t].held = None,
               ![t].exc = "none", ![t].events = <<>>]

\* the events of a step join the history of the task that produced them;
\* the history goes with the task's locals when the coroutine is over
logged(tk, ev) ==
    IF ev = NoEvents \/ tk[ev[1].run].pc = "done" THEN tk
    ELSE [tk EXCEPT ![ev[1].run].events = @ \o ev]

EndOf(tk, t) == IF tk[t].exc = "none" THEN "returned" ELSE tk[t].exc

Apply(w, at, tk, cl, lh, lw, sr, sm, acc, rc, ev) ==
    /\ Commit(MainBot, w)
    /\ active_tasks' = at
    /\ tasks' = logged(tk, ev)
    /\ calls' = [c \in {x \in DOMAIN cl : cl[x].pc # "done"} |-> cl[c]]
    /\ ncalls' = IF DOMAIN cl \subseteq DOMAIN calls THEN ncalls ELSE ncalls + 1
    /\ lock_holder' = lh
    /\ lock_waiters' = lw
    /\ store_runs' = sr
    /\ store_messages' = sm
    /\ accepted' = acc
    /\ runner_calls' = rc
    /\ UNCHANGED <<now, storeVars>>

\* ---- external callers ----

\* submit_prompt up to its first suspension
SubmitPrompt(u) ==
    /\ ncalls < MaxCalls
    /\ CanServe(MainBot, u)
    /\ LET c == ncalls + 1
           w1 == get_or_create(World(MainBot), u)
           sm1 == record_message(store_messages, c)
           acc1 == [accepted EXCEPT ![u] = Append(@, c)]
           call == [kind |-> "submit", user |-> u, prompt |-> c, pc |-> "lock"]
       IN IF LockFree(lock_holder, lock_waiters)
          THEN LET r == submit_locked(w1, active_tasks, tasks, u, c, c)
               IN Apply(r.w, r.at, r.tk,
                        calls @@ (c :> [call EXCEPT !.pc = IF r.queued THEN "msg" ELSE "done"]),
                        IF r.queued THEN CallProc(c) ELSE NoProc, lock_waiters,
                        store_runs, sm1, acc1, runner_calls, NoEvents)
          ELSE Apply(w1, active_tasks, tasks, calls @@ (c :> call), lock_holder,
                     Append(lock_waiters, CallProc(c)), store_runs, sm1, acc1,
                     runner_calls, NoEvents)

\* submit_prompt resumed with the lock
SubmitLocked(c) ==
    /\ c \in DOMAIN calls
    /\ calls[c].kind = "submit" /\ calls[c].pc = "lock"
    /\ LockGranted(CallProc(c))
    /\ LET r == submit_locked(World(MainBot), active_tasks, tasks,
                              calls[c].user, calls[c].prompt, calls[c].prompt)
       IN Apply(r.w, r.at, r.tk,
                [calls EXCEPT ![c].pc = IF r.queued THEN "msg" ELSE "done"],
                IF r.queued THEN CallProc(c) ELSE NoProc, Tail(lock_waiters),
                store_runs, store_messages, accepted, runner_calls, NoEvents)

\* cancel_run up to its first suspension
CancelRun(u) ==
    /\ ncalls < MaxCalls
    /\ LET c == ncalls + 1
           call == [kind |-> "cancel", user |-> u, prompt |-> None, pc |-> "lock"]
       IN IF LockFree(lock_holder, lock_waiters)
          THEN Apply(World(MainBot), active_tasks, cancel_locked(active_tasks, tasks, u),
                     calls @@ (c :> [call EXCEPT !.pc = "msg"]), CallProc(c),
                     lock_waiters, store_runs, store_messages, accepted, runner_calls, NoEvents)
          ELSE Apply(World(MainBot), active_tasks, tasks, calls @@ (c :> call),
                     lock_holder, Append(lock_waiters, CallProc(c)), store_runs,
                     store_messages, accepted, runner_calls, NoEvents)

\* cancel_run resumed with the lock
CancelLocked(c) ==
    /\ c \in DOMAIN calls
    /\ calls[c].kind = "cancel" /\ calls[c].pc = "lock"
    /\ LockGranted(CallProc(c))
    /\ Apply(World(MainBot), active_tasks,
             cancel_locked(active_tasks, tasks, calls[c].user),
             [calls EXCEPT ![c].pc = "msg"], CallProc(c), Tail(lock_waiters),
             store_runs, store_messages, accepted, runner_calls, NoEvents)

\* send_status returned inside the lock: leave "async with", return
CallReplied(c) ==
    /\ c \in DOMAIN calls
    /\ calls[c].pc = "msg"
    /\ Apply(World(MainBot), active_tasks, tasks, [calls EXCEPT ![c].pc = "done"],
             NoProc, lock_waiters, store_runs, store_messages, accepted,
             runner_calls, NoEvents)

\* ---- the task running _run_once(user, prompt) ----
\* A pending task.cancel() reaches the coroutine as CancelledError at the
\* suspension point where its next step resumes.

\* first step: an unstarted task that was cancelled never enters the body
TaskStart(t) ==
    /\ t \in DOMAIN tasks
    /\ tasks[t].pc = "created"
    /\ LET u == tasks[t].user
           w1 == set_state(World(MainBot), u, RUNNING)
           run == Run(t, w1.mem[u].session_id, tasks[t].prompt)
           w2 == set_current_run(w1, u, run.run_id)
       IN IF tasks[t].cancel
          THEN Apply(World(MainBot), active_tasks, Finish(tasks, t, "cancelled"),
                     calls, lock_holder, lock_waiters, store_runs, store_messages,
                     accepted, runner_calls, NoEvents)
          ELSE Apply(w2, active_tasks, [tasks EXCEPT ![t].pc = "started_msg"],
                     calls, lock_holder, lock_waiters, record_run(store_runs, run),
                     store_messages, accepted, runner_calls, NoEvents)

\* send_status("started") returned: start the broker, enter try, call the runner
TaskAnnounced(t) ==
    /\ t \in DOMAIN tasks
    /\ tasks[t].pc = "started_msg"
    /\ IF tasks[t].cancel
       THEN Apply(World(MainBot), active_tasks, Finish(tasks, t, "cancelled"),
                  calls, lock_holder, lock_waiters, store_runs, store_messages,
                  accepted, runner_calls, NoEvents)
       ELSE Apply(World(MainBot), active_tasks,
                  [tasks EXCEPT ![t].pc = "in_runner", ![t].broker = "running"],
                  calls, lock_holder, lock_waiters, store_runs, store_messages,
                  accepted,
                  [runner_calls EXCEPT ![tasks[t].user] = Append(@, tasks[t].prompt)],
                  <<Event("started", t)>>)

\* runner.run returned: classify, then finally up to "await broker.stop()"
TaskRunnerReturned(t) ==
    /\ t \in DOMAIN tasks
    /\ tasks[t].pc = "in_runner" /\ ~tasks[t].cancel
    /\ \E res \in RunnerReturns, final \in {None, 1} :
          LET c == classify(res.so, res.rc)
          IN Apply(World(MainBot), active_tasks,
                   [tasks EXCEPT ![t].pc = "broker_stop", ![t].status = c.status,
                                 ![t].error = c.error, ![t].final = final,
                                 ![t].finished_at = now],
                   calls, lock_holder, lock_waiters, store_runs, store_messages,
                   accepted, runner_calls, NoEvents)

\* runner.run raised OSError (the child could not be spawned): no except
\* clause matches, finally runs with run.status untouched
TaskRunnerRaised(t) ==
    /\ t \in DOMAIN tasks
    /\ tasks[t].pc = "in_runner" /\ ~tasks[t].cancel
    /\ Apply(World(MainBot), active_tasks,
             [tasks EXCEPT ![t].pc = "broker_stop", ![t].exc = "oserror",
                           ![t].finished_at = now],
             calls, lock_holder, lock_waiters, store_runs, store_messages,
             accepted, runner_calls, NoEvents)

\* CancelledError inside runner.run: on_status("canceled"), terminate the
\* child, await proc.wait()
TaskRunnerCancelled(t) ==
    /\ t \in DOMAIN tasks
    /\ tasks[t].pc = "in_runner" /\ tasks[t].cancel
    /\ Apply(World(MainBot), active_tasks,
             [tasks EXCEPT ![t].pc = "runner_terminating", ![t].cancel = FALSE],
             calls, lock_holder, lock_waiters, store_runs, store_messages,
             accepted, runner_calls, NoEvents)

\* the runner re-raises CancelledError (also when cancelled again while it
\* waits for the child): except CancelledError, then finally up to broker.stop()
TaskRunnerTerminated(t) ==
    /\ t \in DOMAIN tasks
    /\ tasks[t].pc = "runner_terminating"
    /\ Apply(World(MainBot), active_tasks,
             [tasks EXCEPT ![t].pc = "broker_stop", ![t].cancel = FALSE,
                           ![t].status = CANCELED, ![t].error = "canceled",
                           ![t].exc = "cancelled", ![t].finished_at = now],
             calls, lock_holder, lock_waiters, store_runs, store_messages,
             accepted, runner_calls, NoEvents)

\* a chunk reached the chat: send_func returned in StreamBroker.flush, called
\* by the flusher task between broker.start() and the cancel in broker.stop(),
\* or by the final flush inside broker.stop(); chunks that follow one another
\* are one entry of the history
TaskChunkSent(t) ==
    /\ t \in DOMAIN tasks
    /\ tasks[t].broker = "running"
    /\ tasks[t].events # <<>>
    /\ tasks[t].events[Len(tasks[t].events)] # Event("chunk", t)
    /\ Apply(World(MainBot), active_tasks, tasks, calls, lock_holder, lock_waiters,
             store_runs, store_messages, accepted, runner_calls,
             <<Event("chunk", t)>>)

\* a finally block that returns the session to IDLE before it stores the
\* final message
finally_events_idle_first(t, final) ==
    <<Event("idle", t)>> \o
    (IF final # None THEN <<Event("last_result", t)>> ELSE NoEvents)

\* the finally block of _run_once after broker.stop(): set_last_result when
\* there is a final message, then set_current_run(None) and set_state(IDLE)
finally_events(t, final) ==
    (IF final # None THEN <<Event("last_result", t)>> ELSE NoEvents) \o
    <<Event("idle", t)>>

\* broker.stop() returned: update_run, set_last_result, set_current_run(None),
\* set_state(IDLE), up to "await send_status(summary)"
TaskBrokerStopped(t) ==
    /\ t \in DOMAIN tasks
    /\ tasks[t].pc = "broker_stop"
    /\ LET u == tasks[t].user
           w0 == World(MainBot)
           w1 == IF tasks[t].final # None THEN set_last_result(w0, u, tasks[t].final)
                 ELSE w0
           w2 == set_current_run(w1, u, None)
           w3 == set_state(w2, u, IDLE)
       IN IF tasks[t].cancel
          THEN Apply(w0, active_tasks,
                     [Finish(tasks, t, "cancelled") EXCEPT ![t].broker = "abandoned"],
                     calls, lock_holder, lock_waiters, store_runs, store_messages,
                     accepted, runner_calls, NoEvents)
          ELSE Apply(w3, active_tasks,
                     [tasks EXCEPT ![t].pc = "summary_msg", ![t].broker = "stopped"],
                     calls, lock_holder, lock_waiters,
                     update_run(store_runs, t, tasks[t].status,
                                tasks[t].finished_at, tasks[t].error),
                     store_messages, accepted, runner_calls,
                     finally_events(t, tasks[t].final))

\* _post_run_cleanup from the pop to the task's next suspension; lw is the
\* waiter queue once this task holds the lock
post_run_cleanup(t, lw, ev) ==
    LET u == tasks[t].user
        at1 == pop_active(active_tasks, u)
        w0 == World(MainBot)
        q == dequeued(w0, u)
        w1 == dequeue_prompt(w0, u)
        w2 == get_or_create(w1, u)
        sm1 == record_message(store_messages, q)
        r == submit_locked(w2, at1, tasks, u, q, tasks[t].callbacks)
    IN IF q = None
       THEN Apply(w1, at1, [tasks EXCEPT ![t].pc = "idle_msg"], calls, NoProc, lw,
                  store_runs, store_messages, accepted, runner_calls, ev)
       ELSE IF lw = <<>>
       THEN Apply(r.w, r.at,
                  IF r.queued THEN [r.tk EXCEPT ![t].pc = "resubmit_msg"]
                  ELSE Finish(r.tk, t, EndOf(tasks, t)),
                  calls, IF r.queued THEN TaskProc(t) ELSE NoProc, lw,
                  store_runs, sm1, accepted, runner_calls, ev)
       ELSE Apply(w2, at1, [tasks EXCEPT ![t].pc = "resubmit_lock", ![t].held = q],
                  calls, NoProc, Append(lw, TaskProc(t)), store_runs, sm1,
                  accepted, runner_calls, ev)

\* send_status(summary) returned: _post_run_cleanup
TaskSummarySent(t) ==
    /\ t \in DOMAIN tasks
    /\ tasks[t].pc = "summary_msg"
    /\ IF tasks[t].cancel
       THEN Apply(World(MainBot), active_tasks, Finish(tasks, t, "cancelled"),
                  calls, lock_holder, lock_waiters, store_runs, store_messages,
                  accepted, runner_calls, NoEvents)
       ELSE IF LockFree(lock_holder, lock_waiters)
       THEN post_run_cleanup(t, lock_waiters, <<Event("summary", t)>>)
       ELSE Apply(World(MainBot), active_tasks,
                  [tasks EXCEPT ![t].pc = "cleanup_lock"], calls, lock_holder,
                  Append(lock_waiters, TaskProc(t)), store_runs, store_messages,
                  accepted, runner_calls, <<Event("summary", t)>>)

\* _post_run_cleanup resumed with the lock, or cancelled while waiting for it
TaskCleanupLocked(t) ==
    /\ t \in DOMAIN tasks
    /\ tasks[t].pc = "cleanup_lock"
    /\ IF tasks[t].cancel
       THEN Apply(World(MainBot), active_tasks, Finish(tasks, t, "cancelled"),
                  calls, lock_holder, Remove(lock_waiters, TaskProc(t)),
                  store_runs, store_messages, accepted, runner_calls, NoEvents)
       ELSE /\ LockGranted(TaskProc(t))
            /\ post_run_cleanup(t, Tail(lock_waiters), NoEvents)

\* the nested submit_prompt resumed with the lock
TaskResubmitLocked(t) ==
    /\ t \in DOMAIN tasks
    /\ tasks[t].pc = "resubmit_lock"
    /\ LockGranted(TaskProc(t))
    /\ LET r == submit_locked(World(MainBot), active_tasks, tasks, tasks[t].user,
                              tasks[t].held, tasks[t].callbacks)
       IN Apply(r.w, r.at,
                IF r.queued THEN [r.tk EXCEPT ![t].pc = "resubmit_msg"]
                ELSE Finish(r.tk, t, EndOf(tasks, t)),
                calls, IF r.queued THEN TaskProc(t) ELSE NoProc, Tail(lock_waiters),
                store_runs, store_messages, accepted, runner_calls, NoEvents)

\* the nested submit_prompt's send_status returned: release, the task ends
TaskResubmitReplied(t) ==
    /\ t \in DOMAIN tasks
    /\ tasks[t].pc = "resubmit_msg"
    /\ Apply(World(MainBot), active_tasks, Finish(tasks, t, EndOf(tasks, t)), calls,
             NoProc, lock_waiters, store_runs, store_messages, accepted,
             runner_calls, NoEvents)

\* send_status("waiting for a new prompt") returned: the task ends
TaskIdleSent(t) ==
    /\ t \in DOMAIN tasks
    /\ tasks[t].pc = "idle_msg"
    /\ Apply(World(MainBot), active_tasks, Finish(tasks, t, EndOf(tasks, t)), calls,
             lock_holder, lock_waiters, store_runs, store_messages, accepted,
             runner_calls, NoEvents)

\* ---------------------------------------------------------------------------
\* Event log, poll_external_results, last_result, process restart
\* ---------------------------------------------------------------------------
NoFile == [exists |-> FALSE, inode |-> 0, records |-> <<>>]

\* orchestrator._JsonlSyncState(): open is "handle is not None"
JsonlSyncState == [open |-> FALSE, inode |-> None, offset |-> 0]

\* CodexRunner.normalize_text_for_dedupe on the texts of the model
normalize_text_for_dedupe(t) == IF t = 3 THEN 1 ELSE t

\* hashlib.sha256(...).hexdigest(): injective, never empty
sha256(t) == 100 + t

digest_of(t) == sha256(normalize_text_for_dedupe(t))

Max(a, b) == IF a >= b THEN a ELSE b

\* poll_external_results, the loop over the lines from state.offset on:
\* acc = [w, last_ts, last_hash, messages, updated] and, as history, indices
\* (the positions in the file of the records behind the messages), prev
\* (the hash of the record handled last, at first the hash stored for the
\* session), dup_ts (the latest timestamp of a handled record whose hash is
\* prev or the hash of the session's last result) and dup_sent (such a
\* record was returned)
RECURSIVE poll_lines(_, _, _, _, _, _)
poll_lines(recs, i, acc, u, allow_send, last_result_hash) ==
    IF i > Len(recs) THEN acc
    ELSE LET ts == recs[i].ts
             text == recs[i].text
             digest == digest_of(text)
             seen == [acc EXCEPT !.last_ts = Max(ts, IF acc.last_ts = None THEN ts ELSE acc.last_ts),
                                 !.updated = TRUE]
             nxt ==
               IF acc.last_ts # None /\ ts < acc.last_ts THEN acc
               ELSE IF last_result_hash # None /\ digest = last_result_hash
                    THEN [seen EXCEPT !.last_hash = digest]
               ELSE IF acc.last_hash # None /\ digest = acc.last_hash THEN seen
               ELSE IF allow_send
                    THEN [seen EXCEPT !.last_hash = digest,
                                      !.messages = Append(@, text),
                                      !.indices = @ \cup {i},
                                      !.w = set_last_result(acc.w, u, text)]
               ELSE [seen EXCEPT !.last_hash = digest]
             dup == \/ last_result_hash # None /\ digest = last_result_hash
                    \/ acc.prev # None /\ digest = acc.prev
             handled ==
               [nxt EXCEPT !.prev = digest,
                           !.dup_ts = IF dup THEN Max(ts, @) ELSE @,
                           !.dup_sent = @ \/ (dup /\ i \in nxt.indices)]
         IN poll_lines(recs, i + 1,
                       IF acc.last_ts # None /\ ts < acc.last_ts THEN acc
                       ELSE handled,
                       u, allow_send, last_result_hash)

AdapterApply(b, w, ll, js, po, uc, ch, tl, bl) ==
    /\ ops < budget
    /\ ops' = ops + 1
    /\ Commit(b, w)
    /\ lookup_log' = ll
    /\ jsonl_states' = js
    /\ poll_out' = po
    /\ user_context' = uc
    /\ chat' = ch
    /\ tick_log' = tl
    /\ bind_log' = bl
    /\ UNCHANGED <<now, epoch, budget, jsonl_file, orchVars, auxVars>>

StoreApply(b, w, ll, jf, js, po) ==
    /\ jf = jsonl_file
    /\ AdapterApply(b, w, ll, js, po, user_context, chat, tick_log, bind_log)

\* the Store row of the user's in-memory session
OwnRow(w, u) == CHOOSE r \in w.db : r.session_id = w.mem[u].session_id

\* what a poll_external_results call leaves: the world, the file cursor, the
\* messages, and the history of the loop with the session's stored cursor
Returned(w, u, st, acc) ==
    [w |-> w, js |-> st, messages |-> acc.messages, indices |-> acc.indices,
     dup_ts |-> acc.dup_ts, dup_sent |-> acc.dup_sent,
     cursor |-> <<OwnRow(w, u).jsonl_last_ts, OwnRow(w, u).jsonl_last_hash>>]

\* the entry of poll_out for a call
PollOut(b, u, r) ==
    <<[bot |-> b, user |-> u, messages |-> r.messages, dup_ts |-> r.dup_ts,
       dup_sent |-> r.dup_sent, cursor |-> r.cursor]>>

\* Orchestrator.poll_external_results(user_id, allow_send) from the world w0,
\* when the cursor lookup returns row: the world, the file cursor and the
\* messages after the call.  Every bot is configured with a resume id, so
\* the effective resume id is never empty.
poll_external_results(b, u, allow_send, w0, row) ==
    LET w1 == get_or_create(get_or_create(w0, u), u)
        s == w1.mem[u]
        last_result_hash ==
            IF s.last_result # None THEN digest_of(s.last_result) ELSE None
        f == jsonl_file[b]
        st0 == jsonl_states[b]
        st1 == IF st0.open THEN st0
               ELSE [open |-> TRUE, inode |-> f.inode, offset |-> 0]
        acc0 == [w |-> w1, last_ts |-> row.jsonl_last_ts,
                 last_hash |-> row.jsonl_last_hash, messages |-> <<>>,
                 indices |-> {}, updated |-> FALSE,
                 prev |-> OwnRow(w1, u).jsonl_last_hash, dup_ts |-> None,
                 dup_sent |-> FALSE]
        acc == poll_lines(f.records, st1.offset + 1, acc0, u, allow_send,
                          last_result_hash)
    IN IF ~f.exists
       THEN Returned(w1, u, st0, acc0)
       ELSE IF st1.inode # f.inode \/ Len(f.records) < st1.offset
       THEN Returned(w1, u, JsonlSyncState, acc0)
       ELSE IF row.jsonl_last_ts = None /\ row.jsonl_last_hash = None
       THEN Returned([w1 EXCEPT !.db = update_session_jsonl_state(
                                          w1.db, s.session_id, now, None)],
                     u, st1, acc0)
       ELSE Returned(IF acc.updated
                     THEN [acc.w EXCEPT !.db = update_session_jsonl_state(
                              acc.w.db, s.session_id, acc.last_ts, acc.last_hash)]
                     ELSE acc.w,
                     u, [st1 EXCEPT !.offset = Len(f.records)], acc)

\* the rows Store.get_jsonl_state_by_user_id can return once the session exists
NoBinding ==
    [bound |-> FALSE, at |-> 0, backlog |-> 0, polled |-> FALSE, leaked |-> {},
     returned |-> {}, repeated |-> {}]

\* history of the first poll after the first binding: the records it
\* returned that were in the file when the chat was bound
Polled(b, indices) ==
    IF bind_log[b].bound /\ ~bind_log[b].polled
    THEN [bind_log EXCEPT ![b].polled = TRUE,
                          ![b].leaked = {i \in indices : i <= bind_log[b].backlog}]
    ELSE bind_log

CursorRows(w0, u) ==
    Latest({r \in get_or_create(w0, u).db : r.user_id = u})

PollExternalResults(b, u, allow_send) ==
    /\ CanServe(b, u)
    /\ \E row \in CursorRows(World(b), u) :
          LET r == poll_external_results(b, u, allow_send, World(b), row)
          IN AdapterApply(b, r.w,
                          <<[bot |-> b, user |-> u, kind |-> "cursor",
                             sid |-> row.session_id]>>,
                          [jsonl_states EXCEPT ![b] = r.js],
                          PollOut(b, u, r),
                          user_context, chat, tick_log, Polled(b, r.indices))

\* CodexRunner.read_last_assistant_message on the bot's event log
read_last_assistant_message(f) ==
    IF f.exists /\ f.records # <<>> THEN f.records[Len(f.records)].text ELSE None

\* Orchestrator.last_result: session, else Store lookup, else event log
LastResult(b, u) ==
    /\ CanServe(b, u)
    /\ LET w1 == get_or_create(World(b), u)
           rows == Latest({r \in w1.db : r.user_id = u /\ r.last_result # None})
           fromLog == read_last_assistant_message(jsonl_file[b])
       IN IF w1.mem[u].last_result # None
          THEN StoreApply(b, w1, lookup_log, jsonl_file, jsonl_states, poll_out)
          ELSE IF rows # {}
          THEN \E row \in rows :
                  StoreApply(b, set_last_result(w1, u, row.last_result),
                             <<[bot |-> b, user |-> u, kind |-> "last_result",
                                sid |-> row.session_id]>>,
                             jsonl_file, jsonl_states, poll_out)
          ELSE StoreApply(b,
                  IF fromLog # None THEN set_last_result(w1, u, fromLog) ELSE w1,
                  <<[bot |-> b, user |-> u, kind |-> "last_result", sid |-> None]>>,
                  jsonl_file, jsonl_states, poll_out)

\* Orchestrator.last_result as a function of the state: the texts the call
\* can hand to send_stream, None standing for the 'no result' status
last_result(b, u) ==
    LET w1 == get_or_create(World(b), u)
        stored == get_last_result_by_user_id(w1.db, u)
        fromLog == read_last_assistant_message(jsonl_file[b])
    IN IF w1.mem[u].last_result # None THEN {w1.mem[u].last_result}
       ELSE IF stored # {None} THEN stored
       ELSE {fromLog}

\* ---------------------------------------------------------------------------
\* TelegramAdapter: the send-dedup window and the periodic event-log tick
\* ---------------------------------------------------------------------------
DEDUP_TTL_SECONDS == 3600
DEDUP_MAX_ENTRIES == 256

\* _UserContext(); dedupe_hashes is the dict in insertion order
UserContext == [chat_id |-> None, dedupe_hashes |-> <<>>]

NoTick == [ticked |-> FALSE, running |-> FALSE, sent |-> <<>>, held |-> {}]

Range(q) == {q[i] : i \in 1..Len(q)}

\* TelegramAdapter._hash_text on a non-empty text
hash_text(t) == digest_of(t)

\* sorted(items, key=ts)[:n] popped: n times the first entry of least ts
RECURSIVE drop_oldest(_, _)
drop_oldest(d, n) ==
    IF n <= 0 \/ d = <<>> THEN d
    ELSE LET i == CHOOSE i \in 1..Len(d) :
                     /\ \A j \in 1..Len(d) : d[i].ts <= d[j].ts
                     /\ \A j \in 1..(i - 1) : d[j].ts > d[i].ts
         IN drop_oldest(SubSeq(d, 1, i - 1) \o SubSeq(d, i + 1, Len(d)), n - 1)

\* TelegramAdapter._prune_dedupe
prune_dedupe(d) ==
    LET live == SelectSeq(d, LAMBDA e : ~(now - e.ts > DEDUP_TTL_SECONDS))
    IN IF Len(live) <= DEDUP_MAX_ENTRIES THEN live
       ELSE drop_oldest(live, Len(live) - DEDUP_MAX_ENTRIES)

\* TelegramAdapter._should_send: <<answer, dedupe_hashes afterwards>>
should_send(d, t) ==
    LET pruned == prune_dedupe(d)
    IN IF \E i \in 1..Len(pruned) : pruned[i].digest = hash_text(t)
       THEN <<FALSE, pruned>>
       ELSE <<TRUE, Append(pruned, [digest |-> hash_text(t), ts |-> now])>>

\* _sync_jsonl_tick, the loop over the messages: acc = [d, sent]
RECURSIVE send_messages(_, _, _)
send_messages(msgs, i, acc) ==
    IF i > Len(msgs) THEN acc
    ELSE LET r == should_send(acc.d, msgs[i])
         IN send_messages(msgs, i + 1,
                [d |-> r[2],
                 sent |-> IF r[1] THEN Append(acc.sent, msgs[i]) ELSE acc.sent])

\* Store.get_last_chat_id_by_user_id: the values the query can return
get_last_chat_id_by_user_id(db, user_id) ==
    LET rows == {r \in db : r.user_id = user_id /\ r.last_chat_id # None}
    IN IF rows = {} THEN {None} ELSE {r.last_chat_id : r \in Latest(rows)}

\* TelegramAdapter._sync_jsonl_tick of bot b; the allow-list holds the one
\* user of the model, so the loop over the users has one round.  held
\* collects what the polls made while the user was running read and would
\* have returned with allow_send.
SyncJsonlTick(b, u) ==
    /\ CanServe(b, u)
    /\ LET ctx0 == IF u \in DOMAIN user_context[b] THEN user_context[b][u]
                   ELSE UserContext
       IN \E c \in (IF ctx0.chat_id # None THEN {ctx0.chat_id}
                    ELSE get_last_chat_id_by_user_id(store_sessions, u)) :
            LET ctx1 == [ctx0 EXCEPT !.chat_id = c]
                w1 == get_or_create(World(b), u)
                running == w1.mem[u].state = RUNNING
                uc(ctx) == [user_context EXCEPT ![b] = (u :> ctx) @@ @]
            IN IF c = None
               THEN /\ ops < budget
                    /\ ops' = ops + 1
                    /\ user_context' = uc(ctx1)
                    /\ UNCHANGED <<now, sessions, next_sid, store_sessions,
                                   created, epoch, lookup_log, jsonl_file,
                                   jsonl_states, poll_out, budget, chat,
                                   tick_log, bind_log, orchVars, auxVars>>
               ELSE \E row \in CursorRows(w1, u) :
                      LET r == poll_external_results(b, u, ~running, w1, row)
                          found == poll_external_results(b, u, TRUE, w1, row).messages
                          out == send_messages(r.messages, 1,
                                     [d |-> ctx1.dedupe_hashes, sent |-> <<>>])
                          held == IF running
                                  THEN tick_log[b].held
                                           \cup {hash_text(t) : t \in Range(found)}
                                  ELSE tick_log[b].held
                      IN AdapterApply(b, r.w,
                            <<[bot |-> b, user |-> u, kind |-> "cursor",
                               sid |-> row.session_id]>>,
                            [jsonl_states EXCEPT ![b] = r.js],
                            PollOut(b, u, r),
                            uc([ctx1 EXCEPT !.dedupe_hashes = out.d]),
                            [chat EXCEPT ![b] = @ \o out.sent],
                            [tick_log EXCEPT ![b] =
                                [ticked |-> TRUE, running |-> running,
                                 sent |-> out.sent, held |-> held]],
                            Polled(b, r.indices))

\* TelegramAdapter._authorized for an allowed user: binds the chat
Authorized(b, u, c) ==
    /\ CanServe(b, u)
    /\ AdapterApply(b, set_chat_id(World(b), u, c), lookup_log, jsonl_states,
                    poll_out,
                    [user_context EXCEPT ![b] =
                        (u :> [(IF u \in DOMAIN @ THEN @[u] ELSE UserContext)
                                  EXCEPT !.chat_id = c]) @@ @],
                    chat, tick_log,
                    IF bind_log[b].bound THEN bind_log
                    ELSE [bind_log EXCEPT ![b] =
                            [bound |-> TRUE, at |-> now, polled |-> FALSE, leaked |-> {},
                             returned |-> @.returned, repeated |-> @.repeated,
                             backlog |-> Len(jsonl_file[b].records)]])

\* the SessionManager mutators, called as the orchestrator and adapter do
SmApply(b, w) == StoreApply(b, w, lookup_log, jsonl_file, jsonl_states, poll_out)

GetOrCreate(b, u) == CanServe(b, u) /\ SmApply(b, get_or_create(World(b), u))
SetState(b, u, st) == CanServe(b, u) /\ SmApply(b, set_state(World(b), u, st))
SetCurrentRun(b, u, r) == CanServe(b, u) /\ SmApply(b, set_current_run(World(b), u, r))
SetResumeId(b, u, r) == CanServe(b, u) /\ SmApply(b, set_resume_id(World(b), u, r))
SetLastResult(b, u, t) == CanServe(b, u) /\ SmApply(b, set_last_result(World(b), u, t))
SetJsonlState(b, u, ts, h) ==
    CanServe(b, u) /\ SmApply(b, set_jsonl_state(World(b), u, ts, h))
SetChatId(b, u, c) == CanServe(b, u) /\ SmApply(b, set_chat_id(World(b), u, c))

\* the agent appends an assistant message to the bot's event log
AppendRecord(b, t) ==
    /\ ops < budget
    /\ ops' = ops + 1
    /\ jsonl_file' = [jsonl_file EXCEPT ![b] =
           [exists |-> TRUE, inode |-> IF @.exists THEN @.inode ELSE 1,
            records |-> Append(@.records, [ts |-> now, text |-> t])]]
    /\ UNCHANGED <<now, sessions, next_sid, store_sessions, created, epoch,
                   lookup_log, jsonl_states, poll_out, adapterVars, orchVars,
                   auxVars>>

\* time.time() moves on
Tick ==
    /\ now < MaxTime
    /\ now' = now + 1
    /\ UNCHANGED <<sessions, next_sid, store_sessions, created, storeVars, orchVars>>

\* the gateway process stops and is started again (main.main): the Store
\* file stays, every SessionManager and Orchestrator starts empty
Restart ==
    /\ ops < budget
    /\ ops' = ops + 1
    /\ epoch' = epoch + 1
    /\ sessions' = [b \in Bots |-> <<>>]
    /\ jsonl_states' = [b \in Bots |-> JsonlSyncState]
    /\ user_context' = [b \in Bots |-> <<>>]
    /\ UNCHANGED <<now, next_sid, store_sessions, created, lookup_log, jsonl_file,
                   poll_out, budget, chat, tick_log, bind_log, orchVars,
                   auxVars>>

\* ---------------------------------------------------------------------------
\* CodexRunner._tail_jsonl_events: following the event log of a resume id
\* ---------------------------------------------------------------------------
\* the locals at entry: no handle yet; every line of the model is an
\* agent_message event, its text is the line's number among all appends;
\* followed is history: the inodes the tailer has opened
Tailer == [handle |-> FALSE, inode |-> None, offset |-> 0, last_message |-> None,
           finished |-> FALSE, followed |-> {}]

RECURSIVE TotalLines(_, _)
TotalLines(files, i) ==
    IF i > Len(files) THEN 0 ELSE Len(files[i]) + TotalLines(files, i + 1)

\* the loop body when no handle is open: _find_session_file, open, fstat,
\* seek to the end
TailOpen ==
    /\ ~tailer.finished /\ ~tailer.handle
    /\ tail_path # None
    /\ tailer' = [tailer EXCEPT !.handle = TRUE, !.inode = tail_path,
                                !.offset = Len(tail_files[tail_path]),
                                !.followed = @ \cup {tail_path}]
    /\ UNCHANGED <<tail_files, tail_path, tail_out, exceptTail>>

\* the loop body when readline returns a line
TailReadLine ==
    /\ ~tailer.finished /\ tailer.handle
    /\ tailer.offset < Len(tail_files[tailer.inode])
    /\ LET text == tail_files[tailer.inode][tailer.offset + 1]
       IN IF text = tailer.last_message
          THEN /\ tailer' = [tailer EXCEPT !.offset = @ + 1]
               /\ UNCHANGED tail_out
          ELSE /\ tailer' = [tailer EXCEPT !.offset = @ + 1, !.last_message = text]
               /\ tail_out' = Append(tail_out, text)
    /\ UNCHANGED <<tail_files, tail_path, exceptTail>>

\* the loop body when readline returns nothing and the stat interval is over
TailStatCheck ==
    /\ ~tailer.finished /\ tailer.handle
    /\ tailer.offset >= Len(tail_files[tailer.inode])
    /\ tailer' = IF \/ tail_path = None
                    \/ tail_path # tailer.inode
                    \/ Len(tail_files[tail_path]) < tailer.offset
                 THEN [tailer EXCEPT !.handle = FALSE, !.inode = None]
                 ELSE tailer
    /\ UNCHANGED <<tail_files, tail_path, tail_out, exceptTail>>

\* finished.set() by run(): the loop ends and the handle is closed
TailFinished ==
    /\ ~tailer.finished
    /\ tailer' = [tailer EXCEPT !.finished = TRUE, !.handle = FALSE]
    /\ UNCHANGED <<tail_files, tail_path, tail_out, exceptTail>>

\* the agent appends an agent_message line to the file at the path
TailAppend ==
    /\ tail_path # None
    /\ TotalLines(tail_files, 1) < MaxLines
    /\ tail_files' = [tail_files EXCEPT ![tail_path] =
                         Append(@, TotalLines(tail_files, 1) + 1)]
    /\ UNCHANGED <<tail_path, tailer, tail_out, exceptTail>>

\* the followed file is deleted; an open handle keeps reading the old inode
TailDelete ==
    /\ tail_path # None
    /\ Len(tail_files) <= MaxRotations
    /\ tail_path' = None
    /\ UNCHANGED <<tail_files, tailer, tail_out, exceptTail>>

\* a file with the same resume id is created, with a new inode
TailCreate ==
    /\ tail_path = None
    /\ tail_files' = Append(tail_files, <<>>)
    /\ tail_path' = Len(tail_files) + 1
    /\ UNCHANGED <<tailer, tail_out, exceptTail>>

NextTail ==
    \/ TailOpen
    \/ TailReadLine
    \/ TailStatCheck
    \/ TailFinished
    \/ TailAppend
    \/ TailDelete
    \/ TailCreate

\* ---------------------------------------------------------------------------
\* CodexRunner.run: the workers of one run (pipe channel)
\* ---------------------------------------------------------------------------
\* texts: 1 and 2 are messages, 3 is 1 with other line ends (see LogTexts),
\* 4 is a line holding "context compacted"
OutTexts == {1, 3, 4}
ErrTexts == {1}
FinalTexts == {1, 2}
FINAL_NOTICE == 10        \* "检测到最终结果已输出，自动结束任务。"
NO_OUTPUT_NOTICE == 11    \* "检测到长时间无输出，已自动结束。"
COMPACTION_NOTICE == 12   \* "检测到上下文压缩后无输出，已自动结束。"
progress_text(idle_for) == 20 + idle_for   \* f"进度：运行中，已等待 {int(idle_for)} 秒"
SIGTERM == -15

\* Config fields read by run(); 0 switches a timeout off
DefaultConfig ==
    [final_result_idle_timeout_seconds |-> 1, no_output_idle_timeout_seconds |-> 2,
     context_compaction_idle_timeout_seconds |-> 1, progress_tick_interval |-> 1,
     run_timeout_seconds |-> MaxClock, jsonl_stream_events |-> FALSE,
     message_chunk_limit |-> MaxChunk, telegram_allowed_user_ids |-> Users]

RunConfigs ==
    [final_result_idle_timeout_seconds : {0, 1},
     no_output_idle_timeout_seconds : {0, 2},
     context_compaction_idle_timeout_seconds : {1},
     progress_tick_interval : {1},
     run_timeout_seconds : {MaxClock},
     jsonl_stream_events : BOOLEAN,
     message_chunk_limit : {MaxChunk},
     telegram_allowed_user_ids : {Users}]

\* the locals of run() after create_subprocess_exec; progress_at is the time
\* progress_loop went to sleep; path, recovered and produced are history:
\* the watchdog path taken, the final message the watchdog found, the
\* number of lines read so far; run_started_at is the time.time() of the
\* entry of run(), clock the time.monotonic() since; recovered_ts and
\* final_ts are the timestamps of the event-log records a final message was
\* taken from, lookups counts the event-log lookups of the watchdog
Runner ==
    [clock |-> 0, run_started_at |-> MaxTime, last_output_at |-> 0,
     finished |-> FALSE, recovered_ts |-> None, final_ts |-> None,
     lookups |-> 0, on_final_calls |-> 0,
     context_compacted |-> FALSE, forced_done |-> FALSE,
     last_message_sent |-> None, fallback_attempted |-> FALSE, sent_hashes |-> {},
     alive |-> TRUE, terminated |-> FALSE, returncode |-> None,
     pc |-> "waiting", result |-> None, final_message |-> None,
     progress_at |-> 0, path |-> "none", recovered |-> None, produced |-> 0]

is_context_compacted(t) == t = 4

\* run.emit_output(text, is_error) on the pair <<runner locals, outputs>>
emit_output(ro, text, is_error) ==
    IF ~is_error /\ digest_of(text) \in ro[1].sent_hashes THEN ro
    ELSE <<IF is_error THEN ro[1]
           ELSE [ro[1] EXCEPT !.sent_hashes = @ \cup {digest_of(text)}],
           Append(ro[2], [text |-> text, is_error |-> is_error])>>

Working == runner.pc \in {"waiting", "timeout_wait"} /\ ~runner.finished

\* run.read_stream(proc.stdout, False): one line read
StdoutLine(t) ==
    /\ Working /\ runner.alive /\ runner.produced < MaxOutputs
    /\ LET r1 == [runner EXCEPT !.last_output_at = runner.clock,
                                !.context_compacted = @ \/ is_context_compacted(t),
                                !.produced = @ + 1]
           ro == emit_output(<<r1, run_outputs>>, t, FALSE)
       IN runner' = ro[1] /\ run_outputs' = ro[2]
    /\ UNCHANGED <<rcfg, run_status, agent_final, exceptRun>>

\* run.read_stream(proc.stderr, True): one line read
StderrLine(t) ==
    /\ Working /\ runner.alive /\ runner.produced < MaxOutputs
    /\ LET r1 == [runner EXCEPT !.last_output_at = runner.clock,
                                !.context_compacted = @ \/ is_context_compacted(t),
                                !.produced = @ + 1]
           ro == emit_output(<<r1, run_outputs>>, t, TRUE)
       IN runner' = ro[1] /\ run_outputs' = ro[2]
    /\ UNCHANGED <<rcfg, run_status, agent_final, exceptRun>>

\* run.jsonl_tailer: _tail_jsonl_events hands a message to emit
TailerEmit(t) ==
    /\ Working /\ rcfg.jsonl_stream_events /\ runner.produced < MaxOutputs
    /\ LET r1 == [runner EXCEPT !.last_output_at = runner.clock,
                                !.produced = @ + 1]
           ro == emit_output(<<r1, run_outputs>>, t, FALSE)
       IN runner' = ro[1] /\ run_outputs' = ro[2]
    /\ UNCHANGED <<rcfg, run_status, agent_final, exceptRun>>

\* run.progress_loop: one round, when its sleep is over
ProgressTick ==
    /\ Working
    /\ rcfg.progress_tick_interval > 0 /\ ~rcfg.jsonl_stream_events
    /\ runner.clock - runner.progress_at >= rcfg.progress_tick_interval
    /\ runner' = [runner EXCEPT !.progress_at = runner.clock]
    /\ LET idle_for == runner.clock - runner.last_output_at
       IN run_outputs' =
            IF idle_for >= rcfg.progress_tick_interval
            THEN Append(run_outputs,
                    [text |-> progress_text(idle_for), is_error |-> FALSE])
            ELSE run_outputs
    /\ UNCHANGED <<rcfg, run_status, agent_final, exceptRun>>

\* the record a previous run left in the event log
StaleRecord == [timestamp |-> Runner.run_started_at - 1, message |-> 2]

\* _extract_last_assistant_message_with_ts: the last assistant record
extract_last_assistant_message_with_ts(log) ==
    IF log = <<>> THEN <<None, None>>
    ELSE <<log[Len(log)].message, log[Len(log)].timestamp>>

\* a lookup that takes the last assistant record whatever its timestamp
read_last_assistant_message_any(log, min_timestamp) ==
    extract_last_assistant_message_with_ts(log)

\* _read_last_assistant_message_after, with the timestamp of the record
read_last_assistant_message_after(log, min_timestamp) ==
    LET e == extract_last_assistant_message_with_ts(log)
    IN IF e[1] = None \/ e[2] = None THEN <<None, None>>
       ELSE IF e[2] < min_timestamp THEN <<None, None>>
       ELSE e

\* the final message the watchdog reads: the capture file, else once the
\* event log after the start of the run;
\* <<message, fallback_attempted, timestamp of the log record, looked up>>
read_final(r) ==
    IF agent_final.file # None
    THEN <<agent_final.file, r.fallback_attempted, None, FALSE>>
    ELSE IF ~r.fallback_attempted
    THEN LET m == read_last_assistant_message_after(agent_final.log,
                                                    r.run_started_at)
         IN <<m[1], TRUE, m[2], TRUE>>
    ELSE <<None, r.fallback_attempted, None, FALSE>>

\* _emit_final_message: the capture file, else the event log after the start
\* of the run; <<message, timestamp of the log record>>
emit_final_message(r) ==
    IF agent_final.file # None THEN <<agent_final.file, None>>
    ELSE read_last_assistant_message_after(agent_final.log, r.run_started_at)

\* a watchdog that terminates the child without setting forced_done
forced_without_flag(r, path, recovered) ==
    [r EXCEPT !.terminated = TRUE, !.path = path, !.recovered = recovered]

\* the end of a watchdog path: forced_done, proc.terminate(), break
forced(r, path, recovered) ==
    [r EXCEPT !.forced_done = TRUE, !.terminated = TRUE, !.path = path,
              !.recovered = recovered]

\* run.idle_watchdog: one round after its sleep
WatchdogCheck ==
    /\ Working /\ runner.path = "none"
    /\ LET idle_for == runner.clock - runner.last_output_at
           F == rcfg.final_result_idle_timeout_seconds
           N == rcfg.no_output_idle_timeout_seconds
           C == rcfg.context_compaction_idle_timeout_seconds
           try1 == F > 0 /\ idle_for >= F
           f1 == read_final(runner)
           r1 == IF try1
                 THEN [runner EXCEPT !.fallback_attempted = f1[2],
                                     !.lookups = IF f1[4] THEN @ + 1 ELSE @]
                 ELSE runner
           f3 == read_final(r1)
           r3 == [r1 EXCEPT !.fallback_attempted = f3[2],
                            !.lookups = IF f3[4] THEN @ + 1 ELSE @]
           say(r, msg) ==
               IF msg # None /\ msg # r.last_message_sent
               THEN emit_output(<<[r EXCEPT !.last_message_sent = msg], run_outputs>>,
                                msg, FALSE)
               ELSE <<r, run_outputs>>
           timeout == Append(run_status, [token |-> "timeout", src |-> "watchdog"])
       IN IF try1 /\ f1[1] # None
          THEN LET ro == emit_output(say(r1, f1[1]), FINAL_NOTICE, FALSE)
               IN /\ runner' = [forced(ro[1], "final", f1[1])
                                   EXCEPT !.recovered_ts = f1[3]]
                  /\ run_outputs' = ro[2]
                  /\ UNCHANGED run_status
          ELSE IF N > 0 /\ idle_for >= N
          THEN LET ro == emit_output(<<r1, run_outputs>>, NO_OUTPUT_NOTICE, FALSE)
               IN /\ runner' = forced(ro[1], "no_output", None)
                  /\ run_outputs' = ro[2]
                  /\ run_status' = timeout
          ELSE IF r1.context_compacted /\ ~rcfg.jsonl_stream_events /\ idle_for >= C
          THEN LET ro == emit_output(say(r3, f3[1]), COMPACTION_NOTICE, FALSE)
               IN /\ runner' = [forced(ro[1], "compaction", f3[1])
                                   EXCEPT !.recovered_ts = f3[3]]
                  /\ run_outputs' = ro[2]
                  /\ run_status' = timeout
          ELSE /\ runner' = r1
               /\ UNCHANGED <<run_outputs, run_status>>
    /\ UNCHANGED <<rcfg, agent_final, exceptRun>>

\* time.monotonic() moves on
ClockTick ==
    /\ runner.pc # "returned" /\ runner.clock < MaxClock
    /\ runner' = [runner EXCEPT !.clock = @ + 1]
    /\ UNCHANGED <<rcfg, run_outputs, run_status, agent_final, exceptRun>>

\* the agent writes its final message to the --output-last-message file
AgentWritesFinal(t) ==
    /\ Working /\ runner.alive /\ agent_final.file = None
    /\ agent_final' = [agent_final EXCEPT !.file = t]
    /\ UNCHANGED <<rcfg, runner, run_outputs, run_status, exceptRun>>

\* the agent logs an assistant message of this run in the event log
AgentLogsFinal(t) ==
    /\ Working /\ runner.alive
    /\ \A i \in 1..Len(agent_final.log) :
          agent_final.log[i].timestamp < runner.run_started_at
    /\ agent_final' = [agent_final EXCEPT !.log =
          Append(@, [timestamp |-> runner.run_started_at +
                                      (IF runner.clock > 0 THEN 1 ELSE 0),
                     message |-> t])]
    /\ UNCHANGED <<rcfg, runner, run_outputs, run_status, exceptRun>>

\* the child exits: by itself, or some time after SIGTERM
ProcExit(rc) ==
    /\ runner.alive
    /\ rc = SIGTERM => runner.terminated
    /\ runner' = [runner EXCEPT !.alive = FALSE, !.returncode = rc]
    /\ UNCHANGED <<rcfg, run_outputs, run_status, agent_final, exceptRun>>

\* asyncio.wait_for(proc.wait(), run_timeout_seconds) times out
MainTimeout ==
    /\ runner.pc = "waiting" /\ runner.alive
    /\ runner.clock >= rcfg.run_timeout_seconds
    /\ run_status' = Append(run_status, [token |-> "timeout", src |-> "run"])
    /\ runner' = [runner EXCEPT !.terminated = TRUE, !.pc = "timeout_wait"]
    /\ UNCHANGED <<rcfg, run_outputs, agent_final, exceptRun>>

\* proc.wait() returned: finished.set(), the workers are cancelled and
\* gathered, _emit_final_message, return
MainReturn ==
    /\ runner.pc \in {"waiting", "timeout_wait"} /\ ~runner.alive
    /\ runner' = [runner EXCEPT
          !.finished = TRUE, !.pc = "returned",
          !.final_message = emit_final_message(runner)[1],
          !.final_ts = emit_final_message(runner)[2],
          !.on_final_calls = IF emit_final_message(runner)[1] # None
                             THEN @ + 1 ELSE @,
          !.result = IF runner.forced_done THEN 0 ELSE runner.returncode]
    /\ UNCHANGED <<rcfg, run_outputs, run_status, agent_final, exceptRun>>

NextRun ==
    \/ \E t \in OutTexts : StdoutLine(t)
    \/ \E t \in ErrTexts : StderrLine(t)
    \/ \E t \in FinalTexts : TailerEmit(t)
    \/ ProgressTick
    \/ WatchdogCheck
    \/ ClockTick
    \/ \E t \in FinalTexts : AgentWritesFinal(t)
    \/ \E t \in FinalTexts : AgentLogsFinal(t)
    \/ \E rc \in {0, 1, SIGTERM} : ProcExit(rc)
    \/ MainTimeout
    \/ MainReturn

\* ---------------------------------------------------------------------------
\* Texts as character sequences; the splitters; the Chat Sender
\* (stream_broker.py, adapters/telegram_adapter.py)
\* ---------------------------------------------------------------------------
TELEGRAM_MESSAGE_LIMIT == 4096
Chars == {"a", "b"}
NL == "\n"
\* the texts of length k that alternate the two characters
Alternating(k) ==
    {[i \in 1..k |-> IF i % 2 = 1 THEN c ELSE CHOOSE d \in Chars : d # c] :
        c \in Chars}
SendTexts == UNION {Alternating(k) : k \in 0..MaxLen}

Min(a, b) == IF a <= b THEN a ELSE b

\* the concatenation of a list of chunks
RECURSIVE Concat(_)
Concat(chunks) ==
    IF chunks = <<>> THEN <<>> ELSE Head(chunks) \o Concat(Tail(chunks))

\* the while loop of StreamBroker._split; start counts characters consumed
RECURSIVE split_loop(_, _, _)
split_loop(content, limit, start) ==
    IF start < Len(content)
    THEN LET end == Min(start + limit, Len(content))
         IN  <<SubSeq(content, start + 1, end)>> \o split_loop(content, limit, end)
    ELSE <<>>

\* StreamBroker._split
split(content, limit) ==
    IF Len(content) <= limit THEN <<content>> ELSE split_loop(content, limit, 0)

\* TelegramStreamSender.__init__: the limit the sender works with
chunk_limit == Max(1, Min(rcfg.message_chunk_limit, TELEGRAM_MESSAGE_LIMIT))

\* the while loop of TelegramStreamSender._split_text
RECURSIVE split_text_loop(_, _, _)
split_text_loop(text, limit, start) ==
    IF start < Len(text)
    THEN LET end == Min(start + limit, Len(text))
         IN  <<SubSeq(text, start + 1, end)>> \o split_text_loop(text, limit, end)
    ELSE <<>>

\* the splitter without its loop: the text goes out whole
split_text_unsplit(text, limit) == <<text>>

\* TelegramStreamSender._split_text
split_text(text, limit) ==
    IF Len(text) <= limit THEN <<text>> ELSE split_text_loop(text, limit, 0)

\* the sender after construction
Sender == [message_id |-> None, full_text |-> <<>>]

\* the last send call; fresh is the message a rejected edit made this call
\* send, prev_fresh the one the call before had sent
NoSend == [n |-> 0, text |-> <<>>, prior |-> Sender, sent |-> <<>>,
           edits |-> <<>>, rejected |-> FALSE, fresh |-> None,
           prev_fresh |-> None]
NoSplit == [applied |-> FALSE, content |-> <<>>, broker |-> <<>>, sender |-> <<>>]

\* TelegramStreamSender._send_new_message: every chunk is a new message, the
\* last one becomes the current message. Returns the sender, the next free
\* message id and the messages sent.
send_new_message(s, next_id, text) ==
    LET chunks == split_text(text, chunk_limit)
        n == Len(chunks)
    IN  [s |-> [message_id |-> next_id + n - 1, full_text |-> chunks[n]],
         next_id |-> next_id + n,
         sent |-> [i \in 1..n |-> [message_id |-> next_id + i - 1,
                                   text |-> chunks[i]]],
         edits |-> <<>>]

\* send that never edits: every text is a new message
send_always_new(s, next_id, text, reject) ==
    IF text = <<>>
    THEN [s |-> s, next_id |-> next_id, sent |-> <<>>, edits |-> <<>>]
    ELSE send_new_message(s, next_id, text)

\* send whose fallback after a rejected edit sends the new text alone
send_fallback_text_only(s, next_id, text, reject) ==
    LET next_text == IF s.full_text # <<>> THEN s.full_text \o <<NL>> \o text
                     ELSE text
        s1 == [s EXCEPT !.full_text = next_text]
        edit == <<[message_id |-> s.message_id, text |-> next_text]>>
    IN  IF text = <<>>
        THEN [s |-> s, next_id |-> next_id, sent |-> <<>>, edits |-> <<>>]
        ELSE IF Len(next_text) > chunk_limit
        THEN send_new_message(s, next_id, text)
        ELSE IF s.message_id = None
        THEN send_new_message(s1, next_id, next_text)
        ELSE IF reject
        THEN [send_new_message(s1, next_id, text) EXCEPT !.edits = edit]
        ELSE [s |-> s1, next_id |-> next_id, sent |-> <<>>, edits |-> edit]

\* TelegramStreamSender.send; reject says whether the transport answers an
\* edit with BadRequest
send(s, next_id, text, reject) ==
    LET next_text == IF s.full_text # <<>> THEN s.full_text \o <<NL>> \o text
                     ELSE text
        s1 == [s EXCEPT !.full_text = next_text]
        edit == <<[message_id |-> s.message_id, text |-> next_text]>>
    IN  IF text = <<>>
        THEN [s |-> s, next_id |-> next_id, sent |-> <<>>, edits |-> <<>>]
        ELSE IF Len(next_text) > chunk_limit
        THEN send_new_message(s, next_id, text)
        ELSE IF s.message_id = None
        THEN send_new_message(s1, next_id, next_text)
        ELSE IF reject
        THEN [send_new_message(s1, next_id, next_text) EXCEPT !.edits = edit]
        ELSE [s |-> s1, next_id |-> next_id, sent |-> <<>>, edits |-> edit]

\* one send call on the sender
Send(text, reject) ==
    /\ send_log.n < MaxSends
    /\ LET r == send(sender, tg, text, reject)
       IN  /\ sender' = r.s
           /\ tg' = r.next_id
           /\ send_log' = [n |-> send_log.n + 1, text |-> text, prior |-> sender,
                           sent |-> r.sent, edits |-> r.edits,
                           rejected |-> reject /\ r.edits # <<>>,
                           fresh |-> IF reject /\ r.edits # <<>>
                                     THEN r.s.message_id ELSE None,
                           prev_fresh |-> send_log.fresh]
    /\ UNCHANGED <<split_log, exceptSend>>

\* both splitters applied to one text
SplitText(text) ==
    /\ split_log' = [applied |-> TRUE, content |-> text,
                     broker |-> split(text, rcfg.message_chunk_limit),
                     sender |-> split_text(text, chunk_limit)]
    /\ UNCHANGED <<sender, tg, send_log, exceptSend>>

NextSend ==
    \/ \E text \in SendTexts, reject \in BOOLEAN : Send(text, reject)
    \/ \E text \in SendTexts : SplitText(text)

\* ---------------------------------------------------------------------------
\* The Stream Broker (stream_broker.py), one step per stretch of code between
\* two awaits. asyncio.Lock is free whenever a coroutine asks for it (no
\* critical section of the broker contains an await), so push and the locked
\* part of flush are single steps.
\* ---------------------------------------------------------------------------
STDERR_PREFIX == <<"e", " ">>     \* "[stderr] "
PushTexts == {<<>>, <<"a", "b">>}

\* "\n".join(buffer)
RECURSIVE join(_)
join(buffer) ==
    IF buffer = <<>> THEN <<>>
    ELSE IF Len(buffer) = 1 THEN buffer[1]
    ELSE buffer[1] \o <<NL>> \o join(Tail(buffer))

\* the broker after construction; flush_task is "none" (None), "sleeping"
\* (the task waits in asyncio.sleep), "sending" (it waits in send_func for
\* the first chunk of pending) or "done"; cancelled says cancel() was called
Broker == [buffer |-> <<>>, flush_task |-> "none", pending |-> <<>>,
           cancelled |-> FALSE]

\* the caller of stop(): "idle" before the call, "gather" while it awaits
\* the cancelled task, "sending" in the final flush, "returned"; left is
\* history: the buffer at the moment stop() returned
Stopper == [pc |-> "idle", pending |-> <<>>, left |-> <<>>]

\* StreamBroker.start
BrokerStart ==
    /\ stopper.pc = "idle"
    /\ broker.flush_task = "none"
    /\ broker' = [broker EXCEPT !.flush_task = "sleeping"]
    /\ UNCHANGED <<stopper, workers, delivered, push_log, exceptBroker>>

\* StreamBroker.push, called by a runner worker through on_output
Push(text, is_error) ==
    /\ workers
    /\ broker.flush_task # "none" \/ stopper.pc # "idle"
    /\ Len(push_log) < MaxPushes
    /\ LET line == IF is_error THEN STDERR_PREFIX \o text ELSE text
       IN  /\ broker' = [broker EXCEPT !.buffer = Append(@, line)]
           /\ push_log' = Append(push_log, [line |-> line, phase |-> stopper.pc])
    /\ UNCHANGED <<stopper, workers, delivered, exceptBroker>>

\* the runner's workers have ended: no further on_output
WorkersEnd ==
    /\ workers
    /\ broker.flush_task # "none" \/ stopper.pc # "idle"
    /\ workers' = FALSE
    /\ UNCHANGED <<broker, stopper, delivered, push_log, exceptBroker>>

\* _flush_loop: the sleep is over and flush(final=False) runs up to its
\* first send_func (an empty buffer sends it back to sleep)
FlushWake ==
    /\ broker.flush_task = "sleeping" /\ ~broker.cancelled
    /\ broker.buffer # <<>>
    /\ broker' = [broker EXCEPT
                     !.buffer = <<>>,
                     !.pending = split(join(broker.buffer), rcfg.message_chunk_limit),
                     !.flush_task = "sending"]
    /\ UNCHANGED <<stopper, workers, delivered, push_log, exceptBroker>>

\* flush of the periodic task: one send_func call has returned
FlushSendChunk ==
    /\ broker.flush_task = "sending" /\ ~broker.cancelled
    /\ delivered' = Append(delivered, [chunk |-> Head(broker.pending),
                                       final |-> FALSE])
    /\ broker' = [broker EXCEPT
                     !.pending = Tail(@),
                     !.flush_task = IF Len(broker.pending) = 1 THEN "sleeping"
                                    ELSE "sending"]
    /\ UNCHANGED <<stopper, workers, push_log, exceptBroker>>

\* stop() up to its first await: nothing to do without a task, else cancel()
StopCall ==
    /\ stopper.pc = "idle"
    /\ IF broker.flush_task = "none"
       THEN /\ stopper' = [stopper EXCEPT !.pc = "returned", !.left = broker.buffer]
            /\ UNCHANGED broker
       ELSE /\ stopper' = [stopper EXCEPT !.pc = "gather"]
            /\ broker' = [broker EXCEPT !.cancelled = TRUE]
    /\ UNCHANGED <<workers, delivered, push_log, exceptBroker>>

\* the cancelled task is resumed with CancelledError at its await: in the
\* sleep, or in send_func, where the chunk in flight has reached the chat or
\* has not, and the chunks after it are never sent
FlusherCancelled(in_flight_sent) ==
    /\ broker.cancelled /\ broker.flush_task \in {"sleeping", "sending"}
    /\ delivered' = IF broker.flush_task = "sending" /\ in_flight_sent
                    THEN Append(delivered, [chunk |-> Head(broker.pending),
                                            final |-> FALSE])
                    ELSE delivered
    /\ broker' = [broker EXCEPT !.flush_task = "done", !.pending = <<>>]
    /\ UNCHANGED <<stopper, workers, push_log, exceptBroker>>

\* stop() after gather: _flush_task = None, then flush(final=True) up to its
\* first send_func, or to its return when the buffer is empty
StopFlush ==
    /\ stopper.pc = "gather" /\ broker.flush_task = "done"
    /\ IF broker.buffer = <<>>
       THEN /\ stopper' = [stopper EXCEPT !.pc = "returned", !.left = <<>>]
            /\ broker' = [broker EXCEPT !.flush_task = "none"]
       ELSE /\ stopper' = [stopper EXCEPT
                              !.pc = "sending",
                              !.pending = split(join(broker.buffer),
                                                rcfg.message_chunk_limit)]
            /\ broker' = [broker EXCEPT !.flush_task = "none", !.buffer = <<>>]
    /\ UNCHANGED <<workers, delivered, push_log, exceptBroker>>

\* the final flush: one send_func call has returned; after the last one
\* flush and stop return
StopSendChunk ==
    /\ stopper.pc = "sending"
    /\ delivered' = Append(delivered, [chunk |-> Head(stopper.pending),
                                       final |-> TRUE])
    /\ stopper' = IF Len(stopper.pending) = 1
                  THEN [pc |-> "returned", pending |-> <<>>, left |-> broker.buffer]
                  ELSE [stopper EXCEPT !.pending = Tail(@)]
    /\ UNCHANGED <<broker, workers, push_log, exceptBroker>>

NextBroker ==
    \/ BrokerStart
    \/ \E text \in PushTexts, is_error \in BOOLEAN : Push(text, is_error)
    \/ WorkersEnd
    \/ FlushWake
    \/ FlushSendChunk
    \/ StopCall
    \/ \E in_flight_sent \in BOOLEAN : FlusherCancelled(in_flight_sent)
    \/ StopFlush
    \/ StopSendChunk

\* ---------------------------------------------------------------------------
\* TelegramAdapter: the command handlers behind _authorized
\* ---------------------------------------------------------------------------
Senders == Users \cup {2}
Commands == {"help", "whoami", "session", "session_arg", "stop", "status",
             "lastresult", "retry", "new", "new_empty", "text"}
NOT_CONFIGURED_NOTICE == 30    \* "未配置允许的用户列表，请联系管理员。"
NOT_ALLOWED_NOTICE == 31       \* "无权限使用此机器人。"

\* the orchestrator operation a handler calls once _authorized let it pass
orchestrator_call(cmd) ==
    CASE cmd \in {"session", "status"} -> "status"
      [] cmd = "stop" -> "cancel_run"
      [] cmd = "lastresult" -> "last_result"
      [] cmd = "retry" -> "retry_last"
      [] cmd \in {"new", "text"} -> "submit_prompt"
      [] OTHER -> "none"

\* the guard without its allow-list
authorized_everyone(u) == TRUE

\* the two tests of TelegramAdapter._authorized
authorized(u) ==
    /\ rcfg.telegram_allowed_user_ids # {}
    /\ u \in rcfg.telegram_allowed_user_ids

\* one update from user u in chat c, handled by the handler of cmd: the
\* rejection notice, or the chat binding and the handler's orchestrator call
\* (_submit_prompt first empties the user's dedup window)
HandleUpdate(b, u, c, cmd) ==
    /\ ops < budget
    /\ ops' = ops + 1
    /\ IF authorized(u)
       THEN /\ CanServe(b, u)
            /\ Commit(b, set_chat_id(World(b), u, c))
            /\ user_context' = [user_context EXCEPT ![b] =
                  (u :> [chat_id |-> c,
                         dedupe_hashes |->
                             IF u \in DOMAIN @ /\ orchestrator_call(cmd) # "submit_prompt"
                             THEN @[u].dedupe_hashes ELSE <<>>]) @@ @]
            /\ bind_log' =
                  IF bind_log[b].bound THEN bind_log
                  ELSE [bind_log EXCEPT ![b] =
                          [bound |-> TRUE, at |-> now, polled |-> FALSE,
                           leaked |-> {}, backlog |-> Len(jsonl_file[b].records),
                           returned |-> @.returned, repeated |-> @.repeated]]
       ELSE UNCHANGED <<sessions, store_sessions, next_sid, created,
                        user_context, bind_log>>
    /\ auth_log' = Append(auth_log,
          [user |-> u, cmd |-> cmd,
           calls |-> IF ~authorized(u) THEN <<>>
                     ELSE IF orchestrator_call(cmd) = "none" THEN <<"set_chat_id">>
                     ELSE <<"set_chat_id", orchestrator_call(cmd)>>,
           notice |-> IF authorized(u) THEN None
                      ELSE IF rcfg.telegram_allowed_user_ids = {}
                      THEN NOT_CONFIGURED_NOTICE ELSE NOT_ALLOWED_NOTICE,
           changed |-> \/ sessions' # sessions
                       \/ store_sessions' # store_sessions
                       \/ user_context' # user_context])
    /\ UNCHANGED <<now, epoch, budget, lookup_log, jsonl_file, jsonl_states,
                   poll_out, chat, tick_log, orchVars, tailVars, runVars,
                   sendVars, brokerVars, fnVars, captureVars>>

NextAuth ==
    \E u \in Senders, c \in ChatIds, cmd \in Commands : HandleUpdate(MainBot, u, c, cmd)

\* ---------------------------------------------------------------------------
\* The dedup normalization on character sequences
\* (CodexRunner._normalize_text_for_dedupe)
\* ---------------------------------------------------------------------------
CR == "\r"
Whitespace == {" ", "\t"}
NormChars == {"a", CR, NL} \cup Whitespace
NormTexts == UNION {[1..k -> NormChars] : k \in 0..MaxText}

\* text.replace("\r\n", "\n")
RECURSIVE replace_crlf(_)
replace_crlf(text) ==
    IF text = <<>> THEN <<>>
    ELSE IF Len(text) >= 2 /\ text[1] = CR /\ text[2] = NL
    THEN <<NL>> \o replace_crlf(SubSeq(text, 3, Len(text)))
    ELSE <<text[1]>> \o replace_crlf(Tail(text))

\* text.replace("\r", "\n")
replace_cr(text) == [i \in 1..Len(text) |-> IF text[i] = CR THEN NL ELSE text[i]]

\* text.split("\n"): always at least one line
RECURSIVE split_lines(_)
split_lines(text) ==
    IF \A i \in 1..Len(text) : text[i] # NL THEN <<text>>
    ELSE LET i == CHOOSE k \in 1..Len(text) :
                      text[k] = NL /\ \A j \in 1..(k - 1) : text[j] # NL
         IN  <<SubSeq(text, 1, i - 1)>> \o split_lines(SubSeq(text, i + 1, Len(text)))

\* a line left as it is
rstrip_nothing(line) == line

\* line.rstrip() of a line without line ends
RECURSIVE rstrip(_)
rstrip(line) ==
    IF line # <<>> /\ line[Len(line)] \in Whitespace
    THEN rstrip(SubSeq(line, 1, Len(line) - 1))
    ELSE line

\* while lines and lines[-1] == "": lines.pop()
RECURSIVE pop_empty(_)
pop_empty(lines) ==
    IF lines # <<>> /\ lines[Len(lines)] = <<>>
    THEN pop_empty(SubSeq(lines, 1, Len(lines) - 1))
    ELSE lines

\* CodexRunner._normalize_text_for_dedupe
normalize_text(text) ==
    IF text = <<>> THEN <<>>
    ELSE LET normalized == replace_cr(replace_crlf(text))
             raw == split_lines(normalized)
             lines == [i \in 1..Len(raw) |-> rstrip(raw[i])]
         IN  join(pop_empty(lines))

\* hash_text of run(): sha256 of the normalized text, injective
hash_of_text(text) == <<"sha256", normalize_text(text)>>

\* one call of the normalization, on a text drawn from NormTexts
Normalize(text) ==
    /\ fn_log.fn = "none"
    /\ fn_log' = [fn |-> "normalize", text |-> text,
                  normalized |-> normalize_text(text),
                  digest |-> hash_of_text(text)]
    /\ UNCHANGED exceptFn

NextNorm == \E text \in NormTexts : Normalize(text)

\* ---------------------------------------------------------------------------
\* The child's command line (CodexRunner._build_args_for_prompt)
\* ---------------------------------------------------------------------------
\* None where a string is expected, and Python truth of an optional string
Absent == "<None>"
Truthy(x) == x # Absent /\ x # ""

ArgConfigs ==
    [codex_cli_cmd : {"codex"},
     codex_cli_args : {<<>>, <<"--model", "x">>, <<"--json">>},
     codex_cli_skip_git_check : BOOLEAN,
     codex_cli_input_mode : {"stdin", "arg"},
     codex_cli_resume_id : {Absent, "resume-abc"}]
Prompts == {"hello", "bye"}
CallResumeIds == {Absent, "", "resume-override"}
LastMessagePaths == {Absent, "/tmp/codex-last-message-1.txt"}

\* the argv with the configured resume id taking precedence
build_args_config_first(cfg, prompt, resume_id, output_last_message_path) ==
    LET active == IF Truthy(cfg.codex_cli_resume_id) THEN cfg.codex_cli_resume_id
                  ELSE resume_id
    IN  [args |-> <<cfg.codex_cli_cmd, "exec">> \o cfg.codex_cli_args
                      \o <<"resume", active, "-">>,
         use_exec |-> Truthy(active)]

\* CodexRunner._build_args_for_prompt: (args, use_exec)
build_args_for_prompt(cfg, prompt, resume_id, output_last_message_path) ==
    LET active_resume_id == IF Truthy(resume_id) THEN resume_id
                            ELSE cfg.codex_cli_resume_id
        out == IF Truthy(output_last_message_path)
               THEN <<"--output-last-message", output_last_message_path>> ELSE <<>>
        last == IF cfg.codex_cli_input_mode = "arg" THEN <<prompt>> ELSE <<>>
    IN  IF Truthy(active_resume_id)
        THEN [args |-> <<cfg.codex_cli_cmd, "exec">>
                          \o (IF cfg.codex_cli_skip_git_check
                              THEN <<"--skip-git-repo-check">> ELSE <<>>)
                          \o out \o cfg.codex_cli_args
                          \o <<"resume", active_resume_id>>
                          \o (IF cfg.codex_cli_input_mode = "arg" THEN <<prompt>>
                              ELSE <<"-">>),
              use_exec |-> TRUE]
        ELSE [args |-> <<cfg.codex_cli_cmd>> \o out \o cfg.codex_cli_args \o last,
              use_exec |-> FALSE]

\* one call of _build_args_for_prompt
BuildArgs(cfg, prompt, resume_id, path) ==
    /\ fn_log.fn = "none"
    /\ fn_log' = [fn |-> "build_args", cfg |-> cfg, prompt |-> prompt,
                  resume_id |-> resume_id, path |-> path,
                  out |-> build_args_for_prompt(cfg, prompt, resume_id, path)]
    /\ UNCHANGED exceptFn

NextArgs ==
    \E cfg \in ArgConfigs, prompt \in Prompts, resume_id \in CallResumeIds,
       path \in LastMessagePaths : BuildArgs(cfg, prompt, resume_id, path)

\* ---------------------------------------------------------------------------
\* Agent-reasoning events (CodexRunner._summarize_reasoning and the
\* reasoning branch of _tail_jsonl_events). A reasoning text is a list of
\* words, standing for the words joined by single blanks; the empty word
\* gives a blank at the start, at the end, or two in a row.
\* ---------------------------------------------------------------------------
\* the keyword tuples of _summarize_reasoning, in the order of its tests
\* (a character outside ASCII is written as its code point)
KeywordGroups ==
    <<{<<"p", "l", "a", "n">>, <<"U+89C4", "U+5212">>, <<"U+8BA1", "U+5212">>},
      {<<"a", "n", "a", "l", "y", "z", "e">>,
       <<"a", "n", "a", "l", "y", "s", "i", "s">>, <<"U+8BC4", "U+4F30">>,
       <<"U+5206", "U+6790">>},
      {<<"c", "o", "n", "f", "i", "g">>, <<"U+914D", "U+7F6E">>, <<"e", "n", "v">>,
       <<"U+73AF", "U+5883">>},
      {<<"e", "r", "r", "o", "r">>, <<"f", "a", "i", "l">>, <<"U+5931", "U+8D25">>,
       <<"U+95EE", "U+9898">>},
      {<<"t", "e", "s", "t">>, <<"p", "y", "t", "e", "s", "t">>,
       <<"p", "l", "a", "y", "w", "r", "i", "g", "h", "t">>,
       <<"U+6D4B", "U+8BD5">>},
      {<<"d", "e", "p", "l", "o", "y">>,
       <<"s", "y", "s", "t", "e", "m", "c", "t", "l">>,
       <<"s", "e", "r", "v", "i", "c", "e">>, <<"U+670D", "U+52A1">>},
      {<<"r", "e", "f", "a", "c", "t", "o", "r">>, <<"U+91CD", "U+6784">>},
      {<<"r", "e", "a", "d", "m", "e">>, <<"d", "o", "c">>, <<"U+6587", "U+6863">>},
      {<<"v", "e", "r", "i", "f", "y">>, <<"U+9A8C", "U+8BC1">>},
      {<<"f", "i", "n", "a", "l">>, <<"s", "u", "m", "m", "a", "r", "y">>,
       <<"U+6700", "U+7EC8">>, <<"U+603B", "U+7ED3">>},
      {<<"s", "q", "l", "i", "t", "e">>, <<"d", "b">>,
       <<"U+6570", "U+636E", "U+5E93">>, <<"j", "s", "o", "n", "l">>}>>
\* the fallback tag "整理任务与输出"
DEFAULT_TAG == 0

Vocabulary ==
    {<<"F", "i", "n", "a", "l", "t", "e", "s", "t", "p", "l", "a", "n">>,
     <<"d", "b", "e", "r", "r", "o", "r">>,
     <<"x", "y", "z", "x", "y">>,
     <<"q", "r", "s", "q", "r">>,
     <<>>}
ReasoningTexts == UNION {[1..k -> Vocabulary] : k \in 1..MaxWords}
ReasoningModes == {"summary", "hidden"}
HIDDEN_NOTICE == <<"reasoning hidden">>    \* "进度：内部推理进行中（内容已隐藏）。"

\* str.lower() on the letters of the model
lower(chars) ==
    [i \in 1..Len(chars) |-> IF chars[i] = "F" THEN "f" ELSE chars[i]]

\* word in chars
contains(chars, word) ==
    \E i \in 0..(Len(chars) - Len(word)) : SubSeq(chars, i + 1, i + Len(word)) = word

\* the groups with a keyword in one word; no keyword holds a blank, so a
\* keyword is in the text exactly when it is in one of its words
WordGroups ==
    [v \in Vocabulary |->
        {g \in 1..Len(KeywordGroups) :
            \E word \in KeywordGroups[g] : contains(lower(v), word)}]

\* the tags list of _summarize_reasoning as group numbers, in test order
matched(text) == UNION {WordGroups[text[i]] : i \in 1..Len(text)}

RECURSIVE ascending(_)
ascending(set) ==
    IF set = {} THEN <<>>
    ELSE LET m == CHOOSE x \in set : \A y \in set : x <= y
         IN  <<m>> \o ascending(set \ {m})

\* len(text.strip()): the words and the blanks between them, without the
\* blanks that empty words leave at both ends
RECURSIVE strip_words(_)
strip_words(text) ==
    IF text # <<>> /\ Head(text) = <<>> THEN strip_words(Tail(text))
    ELSE IF text # <<>> /\ text[Len(text)] = <<>>
    THEN strip_words(SubSeq(text, 1, Len(text) - 1))
    ELSE text

RECURSIVE chars_of(_)
chars_of(text) ==
    IF text = <<>> THEN 0
    ELSE Len(Head(text)) + (IF Len(text) > 1 THEN 1 ELSE 0) + chars_of(Tail(text))

stripped_length(text) == chars_of(strip_words(text))

\* a summary that quotes the first word of the reasoning
summarize_reasoning_quoting(text) ==
    <<"reasoning summary", <<Head(text)>>, stripped_length(text)>>

\* CodexRunner._summarize_reasoning: the fixed frame with the first four
\* tags and the stripped length
summarize_reasoning(text) ==
    LET tags == IF matched(text) = {} THEN <<DEFAULT_TAG>>
                ELSE ascending(matched(text))
    IN  <<"reasoning summary", SubSeq(tags, 1, Min(4, Len(tags))), stripped_length(text)>>

\* what the tailer emits for a reasoning event that passed the throttle
reasoning_output(mode, text) ==
    IF mode = "summary" THEN summarize_reasoning(text) ELSE HIDDEN_NOTICE

\* one reasoning event read by the tailer
ReasoningEvent(mode, text) ==
    /\ fn_log.fn = "none"
    /\ fn_log' = [fn |-> "reasoning", mode |-> mode, text |-> text,
                  out |-> reasoning_output(mode, text)]
    /\ UNCHANGED exceptFn

NextReasoning ==
    \E mode \in ReasoningModes, text \in ReasoningTexts : ReasoningEvent(mode, text)

\* ---------------------------------------------------------------------------
\* ---------------------------------------------------------------------------
\* CodexRunner.run and _run_with_pty: the life of the final-message capture
\* file (codex_runner.py)
\* ---------------------------------------------------------------------------
TempPath == "/tmp/codex-last-message-1.txt"
\* how proc.wait() came to an end inside wait_for
WaitEnds == {"exit", "watchdog", "timeout"}
\* what "await asyncio.create_subprocess_exec" can raise
SpawnErrors == {"OSError", "CancelledError"}

\* one call of run(): file is the state of the temp file on disk, master_fd
\* the PTY master descriptor, emitted whether on_final got a message; child
\* is the child process, workers the tasks run() created, finished the
\* asyncio.Event; written counts the lines the child wrote to its standard
\* output, read those a reader forwarded to on_output, late tells that
\* on_output was invoked after run() had returned or raised
Capture ==
    [pc |-> "idle", use_pty |-> FALSE, use_exec |-> FALSE, channel |-> "pipe",
     last_message_path |-> Absent, file |-> "missing", master_fd |-> "none",
     ended |-> "none", cancelled |-> FALSE, emitted |-> FALSE,
     child |-> "none", workers |-> "none", finished |-> FALSE,
     written |-> 0, read |-> 0, late |-> FALSE,
     stream_include_stderr |-> FALSE, err |-> "none", err_pushed |-> FALSE]

\* proc.wait() can return: the child has exited; on the pipe channel asyncio
\* completes wait() only once both pipes reached end of file, and the reader
\* tasks, woken first, have by then forwarded every line; on the PTY channel
\* the child has no pipes and wait() completes at its exit
wait_can_return(c) ==
    c.channel = "pipe" => (c.read = c.written /\ c.err # "written")

\* Orchestrator._run_once.on_output: whether the text is pushed to the broker
on_output_pushes(c, is_error) ==
    ~(is_error /\ ~c.stream_include_stderr)

\* the is_error flag a line of the child's standard error reaches on_output
\* with: read_stream(proc.stderr, True) on the pipe channel; on the PTY
\* channel stderr is the slave descriptor like stdout and read_output emits
\* every line with False
stderr_is_error(c) == c.channel = "pipe"

\* _prepare_last_message_file: NamedTemporaryFile(delete=False) leaves an
\* empty file and returns its name, or None on OSError
prepare_last_message_file(c, ok) ==
    IF ok THEN [c EXCEPT !.last_message_path = TempPath, !.file = "empty"]
    ELSE [c EXCEPT !.last_message_path = Absent]

\* the finally block of run() and of _run_with_pty
finally_remove(c) ==
    [c EXCEPT !.master_fd = IF c.channel = "pty" THEN "closed" ELSE @,
              !.file = IF c.last_message_path # Absent THEN "missing" ELSE @]

\* run() up to "await create_subprocess_exec": the file is reserved, the
\* channel chosen, for the PTY channel the descriptors opened
RunEnter(use_pty, use_exec, ok, include_stderr) ==
    /\ capture.pc = "idle"
    /\ LET c == prepare_last_message_file(capture, ok)
           pty == use_pty /\ ~use_exec
       IN capture' = [c EXCEPT !.pc = "spawning", !.use_pty = use_pty,
                               !.use_exec = use_exec,
                               !.stream_include_stderr = include_stderr,
                               !.channel = IF pty THEN "pty" ELSE "pipe",
                               !.master_fd = IF pty THEN "open" ELSE "none"]
    /\ UNCHANGED exceptCapture

\* the child was spawned: run() enters its try block
SpawnDone ==
    /\ capture.pc = "spawning"
    /\ capture' = [capture EXCEPT !.pc = "waiting", !.child = "alive",
                                  !.workers = "running"]
    /\ UNCHANGED exceptCapture

\* create_subprocess_exec raised, or the task was cancelled while it was
\* awaited: the statement stands before the try block, run() raises
SpawnFailed(exc) ==
    /\ capture.pc = "spawning"
    /\ capture' = [capture EXCEPT !.pc = "raised", !.ended = exc]
    /\ UNCHANGED exceptCapture

\* the agent writes its final message to the --output-last-message file
ChildWritesFinal ==
    /\ capture.pc = "waiting" /\ capture.last_message_path # Absent
    /\ capture.file = "empty"
    /\ capture' = [capture EXCEPT !.file = "written"]
    /\ UNCHANGED exceptCapture

\* the child writes a line to its standard output
ChildWritesLine ==
    /\ capture.child = "alive" /\ capture.written < MaxOutputs
    /\ capture' = [capture EXCEPT !.written = @ + 1]
    /\ UNCHANGED exceptCapture

\* read_stream / read_output: a line is read and handed to on_output; the
\* PTY reader reads from the master descriptor while it is open
ReaderForwards ==
    /\ capture.workers = "running" /\ capture.read < capture.written
    /\ capture.channel = "pty" => capture.master_fd = "open"
    /\ capture' = [capture EXCEPT
          !.read = @ + 1,
          !.late = @ \/ capture.pc \in {"returned", "raised"}]
    /\ UNCHANGED exceptCapture

\* the child writes a line to its standard error
ChildWritesStderr ==
    /\ capture.child = "alive" /\ capture.err = "none"
    /\ capture' = [capture EXCEPT !.err = "written"]
    /\ UNCHANGED exceptCapture

\* a reader reads the line of standard error and hands it to on_output
ReaderForwardsStderr ==
    /\ capture.workers = "running" /\ capture.err = "written"
    /\ capture.channel = "pty" => capture.master_fd = "open"
    /\ capture' = [capture EXCEPT
          !.err = "read",
          !.err_pushed = on_output_pushes(capture, stderr_is_error(capture))]
    /\ UNCHANGED exceptCapture

\* wait_for(proc.wait()) is over (the child exited by itself, after a
\* watchdog terminated it, or after the run timeout): finished.set(), the
\* workers are cancelled and gathered, _emit_final_message reads the file
WaitOver(how) ==
    /\ capture.pc = "waiting" /\ wait_can_return(capture)
    /\ capture' = [capture EXCEPT !.pc = "finishing", !.ended = how,
                                  !.child = "exited", !.finished = TRUE,
                                  !.workers = "stopped",
                                  !.emitted = capture.file = "written"]
    /\ UNCHANGED exceptCapture

\* CancelledError at an await inside the try block: the except clause
\* reports "canceled", terminates the child and waits for it
Cancelled ==
    /\ capture.pc \in {"waiting", "finishing"}
    /\ capture' = [capture EXCEPT !.pc = "cancelling", !.cancelled = TRUE]
    /\ UNCHANGED exceptCapture

\* the except clause is over. Either proc.wait() returned: finished.set(),
\* raise; the workers, which it neither cancels nor awaits, find the child's
\* output at its end and finished set. Or the task was cancelled again while
\* the clause awaited proc.wait(): CancelledError leaves the clause at once.
\* Then finally, and run() raises.
RunRaises(again) ==
    /\ capture.pc = "cancelling"
    /\ ~again => wait_can_return(capture)
    /\ capture' =
          IF again THEN [finally_remove(capture) EXCEPT !.pc = "raised"]
          ELSE [finally_remove(capture) EXCEPT
                   !.pc = "raised", !.finished = TRUE,
                   !.child = IF @ = "alive" THEN "exited" ELSE @,
                   !.workers = IF capture.finished THEN @ ELSE "stopping"]
    /\ UNCHANGED exceptCapture

\* the terminated child exits after run() raised
ChildExitsLate ==
    /\ capture.pc = "raised" /\ capture.child = "alive"
    /\ capture' = [capture EXCEPT !.child = "exited"]
    /\ UNCHANGED exceptCapture

\* the try block reaches its return: finally, run() returns
RunReturns ==
    /\ capture.pc = "finishing"
    /\ capture' = [finally_remove(capture) EXCEPT !.pc = "returned"]
    /\ UNCHANGED exceptCapture

NextCapture ==
    \/ \E use_pty \in BOOLEAN, use_exec \in BOOLEAN, ok \in BOOLEAN,
             include_stderr \in BOOLEAN :
          RunEnter(use_pty, use_exec, ok, include_stderr)
    \/ SpawnDone
    \/ \E exc \in SpawnErrors : SpawnFailed(exc)
    \/ ChildWritesFinal
    \/ ChildWritesLine
    \/ ReaderForwards
    \/ ChildWritesStderr
    \/ ReaderForwardsStderr
    \/ \E how \in WaitEnds : WaitOver(how)
    \/ Cancelled
    \/ \E again \in BOOLEAN : RunRaises(again)
    \/ ChildExitsLate
    \/ RunReturns

InitState ==
    /\ now = 0
    /\ sessions = [b \in Bots |-> <<>>]
    /\ next_sid = 1
    /\ store_sessions = {}
    /\ store_runs = {}
    /\ store_messages = <<>>
    /\ active_tasks = <<>>
    /\ lock_holder = NoProc
    /\ lock_waiters = <<>>
    /\ tasks = <<>>
    /\ calls = <<>>
    /\ ncalls = 0
    /\ accepted = [u \in Users |-> <<>>]
    /\ runner_calls = [u \in Users |-> <<>>]
    /\ created = {}
    /\ epoch = 0
    /\ lookup_log = <<>>
    /\ ops = 0
    /\ jsonl_file = [b \in Bots |-> NoFile]
    /\ jsonl_states = [b \in Bots |-> JsonlSyncState]
    /\ poll_out = <<>>
    /\ user_context = [b \in Bots |-> <<>>]
    /\ chat = [b \in Bots |-> <<>>]
    /\ tick_log = [b \in Bots |-> NoTick]
    /\ bind_log = [b \in Bots |-> NoBinding]
    /\ tail_files = <<<<>>>>
    /\ tail_path = 1
    /\ tailer = Tailer
    /\ tail_out = <<>>
    /\ runner = Runner
    /\ run_outputs = <<>>
    /\ run_status = <<>>
    /\ agent_final = [file |-> None, log |-> <<StaleRecord>>]
    /\ sender = Sender
    /\ tg = 1
    /\ send_log = NoSend
    /\ split_log = NoSplit
    /\ broker = Broker
    /\ stopper = Stopper
    /\ workers = TRUE
    /\ delivered = <<>>
    /\ push_log = <<>>
    /\ auth_log = <<>>
    /\ fn_log = [fn |-> "none"]
    /\ capture = Capture

Init == InitState /\ budget = MaxOps /\ rcfg = DefaultConfig

Ids == 1..(MaxCalls + 1)

Next ==
    \/ \E u \in Users : SubmitPrompt(u)
    \/ \E u \in Users : CancelRun(u)
    \/ \E c \in Ids : SubmitLocked(c)
    \/ \E c \in Ids : CancelLocked(c)
    \/ \E c \in Ids : CallReplied(c)
    \/ \E t \in Ids : TaskStart(t)
    \/ \E t \in Ids : TaskAnnounced(t)
    \/ \E t \in Ids : TaskRunnerReturned(t)
    \/ \E t \in Ids : TaskRunnerRaised(t)
    \/ \E t \in Ids : TaskRunnerCancelled(t)
    \/ \E t \in Ids : TaskRunnerTerminated(t)
    \/ \E t \in Ids : TaskChunkSent(t)
    \/ \E t \in Ids : TaskBrokerStopped(t)
    \/ \E t \in Ids : TaskSummarySent(t)
    \/ \E t \in Ids : TaskCleanupLocked(t)
    \/ \E t \in Ids : TaskResubmitLocked(t)
    \/ \E t \in Ids : TaskResubmitReplied(t)
    \/ \E t \in Ids : TaskIdleSent(t)

Spec == Init /\ [][Next]_vars

NextStore ==
    \/ \E b \in Bots, u \in Users : GetOrCreate(b, u)
    \/ \E b \in Bots, u \in Users, st \in {IDLE, RUNNING} : SetState(b, u, st)
    \/ \E b \in Bots, u \in Users, r \in {None, 1} : SetCurrentRun(b, u, r)
    \/ \E b \in Bots, u \in Users, r \in ResumeIds : SetResumeId(b, u, r)
    \/ \E b \in Bots, u \in Users, t \in Texts : SetLastResult(b, u, t)
    \/ \E b \in Bots, u \in Users, t \in Texts :
          SetJsonlState(b, u, now, sha256(t))
    \/ \E b \in Bots, u \in Users, c \in ChatIds : SetChatId(b, u, c)
    \/ \E b \in Bots, u \in Users, a \in BOOLEAN : PollExternalResults(b, u, a)
    \/ \E b \in Bots, u \in Users : LastResult(b, u)
    \/ \E b \in Bots, t \in LogTexts : AppendRecord(b, t)
    \/ Tick
    \/ Restart

SpecStore == Init /\ [][NextStore]_vars

\* ---------------------------------------------------------------------------
\* Properties of the orchestrator
\* ---------------------------------------------------------------------------
TasksOf(u) == {t \in DOMAIN tasks : tasks[t].user = u}
RunRow(t) == CHOOSE r \in store_runs : r.run_id = t
HasRun(t) == \E r \in store_runs : r.run_id = t
Count(seq, x) == Cardinality({i \in 1..Len(seq) : seq[i] = x})

\* the task is between record_run and update_run: its run is being executed
Executing(t) ==
    tasks[t].pc \in {"started_msg", "in_runner", "runner_terminating", "broker_stop"}
InRunner(t) == tasks[t].pc \in {"in_runner", "runner_terminating"}

\* nothing is in flight: every task is done and no handler is suspended
Quiescent ==
    /\ calls = <<>>
    /\ \A t \in DOMAIN tasks : TaskDone(tasks, t)

\* C1: for every user at most one run is being executed at a time (recorded
\* as RUNNING by a task that has not finished it), under every interleaving
\* of submit_prompt, cancel_run, run completion and post-run cleanup.
C1_AtMostOneActive ==
    \A u \in Users : Cardinality({t \in TasksOf(u) : Executing(t)}) <= 1

\* C1 witness: a second run executes after the first went through its
\* cleanup, while a third prompt waits in the queue
C1_Witness ==
    \E t1, t2 \in DOMAIN tasks :
        /\ t1 # t2 /\ tasks[t1].user = tasks[t2].user
        /\ TaskDone(tasks, t1) /\ tasks[t1].ended = "returned"
        /\ InRunner(t2)
        /\ 1 \in DOMAIN sessions[MainBot]
        /\ sessions[MainBot][1].queue # <<>>

\* C2: per user the runner is invoked with prompts in the order in which
\* submit_prompt received them (prompt ids grow in order of receipt).
C2_QueueFifo ==
    \A u \in Users : \A i, j \in 1..Len(runner_calls[u]) :
        i < j => runner_calls[u][i] < runner_calls[u][j]

\* C3: once every run has terminated and nothing is in flight, each prompt
\* accepted by submit_prompt has been passed to the runner exactly once.
C3_EveryPromptRunsOnce ==
    Quiescent =>
        \A u \in Users : \A i \in 1..Len(accepted[u]) :
            Count(runner_calls[u], accepted[u][i]) = 1

\* C4: a terminal run status never changes again, and in every state a run
\* row has finished_at set iff its status is terminal.
C4_TerminalFinality ==
    /\ [](\A r \in store_runs :
             (r.finished_at # None) <=> (r.status \in TerminalStatuses))
    /\ [][\A r \in store_runs : r.status \in TerminalStatuses =>
             \E q \in store_runs' : q.run_id = r.run_id /\ q.status = r.status]_vars

\* C5: a run that cancel_run cancelled, wherever it was, ends recorded as
\* CANCELED (when the cancel came before the runner had returned; with its
\* terminal status otherwise) and with its cleanup complete: broker stopped,
\* current run id cleared, active-run entry removed, session back to IDLE.
C5_CancelCleansUp ==
    \A t \in DOMAIN tasks :
        (tasks[t].cancel_requested /\ TaskDone(tasks, t)) =>
            LET u == tasks[t].user
            IN /\ HasRun(t)
               /\ RunRow(t).status \in TerminalStatuses
               /\ tasks[t].cancel_at \in {"created", "started_msg", "in_runner",
                                          "runner_terminating"}
                     => RunRow(t).status = CANCELED
               /\ tasks[t].broker = "stopped"
               /\ sessions[MainBot][u].current_run_id # t
               /\ ~(u \in DOMAIN active_tasks /\ active_tasks[u] = t)
               /\ (\A x \in TasksOf(u) : TaskDone(tasks, x))
                     => sessions[MainBot][u].state = IDLE

\* C6: a run whose runner call raised OSError is recorded with status ERROR
\* and the OS error as detail; the session returns to IDLE and the queue
\* goes on.
C6_SpawnErrorIsError ==
    \A t \in DOMAIN tasks :
        (TaskDone(tasks, t) /\ tasks[t].ended = "oserror") =>
            /\ RunRow(t).status = ERROR
            /\ RunRow(t).error = "oserror"
            /\ Quiescent =>
                  /\ sessions[MainBot][tasks[t].user].state = IDLE
                  /\ sessions[MainBot][tasks[t].user].queue = <<>>

\* C7: the current run id is set iff the session state is RUNNING, and once
\* every run of the user has ended the session is IDLE with no current run.
C7_CurrentRunIffRunning ==
    \A u \in DOMAIN sessions[MainBot] :
        LET s == sessions[MainBot][u]
        IN /\ (s.current_run_id # None) <=> (s.state = RUNNING)
           /\ (\A t \in TasksOf(u) : TaskDone(tasks, t))
                 => (s.state = IDLE /\ s.current_run_id = None)

\* ---------------------------------------------------------------------------
\* Properties of the Store and the SessionManager
\* ---------------------------------------------------------------------------
OwnerOf(sid) == (CHOOSE c \in created : c.sid = sid).bot

\* C8: a recovery lookup (latest last result, latest event-log cursor) made
\* for (bot, user) only returns the value of a session of that bot, never
\* one of another bot's session for the same user id.
C8_BotIsolation ==
    \A i \in 1..Len(lookup_log) :
        lookup_log[i].sid = None \/ OwnerOf(lookup_log[i].sid) = lookup_log[i].bot

\* C9: after every SessionManager mutator and every poll_external_results
\* call, each persisted field of an in-memory Session equals the Store row
\* with its session id.
C9_SessionStoreRoundTrip ==
    \A b \in Bots : \A u \in DOMAIN sessions[b] :
        LET s == sessions[b][u]
        IN \E r \in store_sessions :
              /\ r.session_id = s.session_id
              /\ r.state = s.state
              /\ r.resume_id = s.resume_id
              /\ r.last_result = s.last_result
              /\ r.jsonl_last_ts = s.jsonl_last_ts
              /\ r.jsonl_last_hash = s.jsonl_last_hash
              /\ r.last_chat_id = s.last_chat_id

\* C10 as stated: the Store never holds two session rows for the same
\* (bot, user), also across a stop and restart of the process.
C10_OneRowPerBotUser ==
    \A r1, r2 \in store_sessions :
        (OwnerOf(r1.session_id) = OwnerOf(r2.session_id) /\ r1.user_id = r2.user_id)
            => r1.session_id = r2.session_id

\* C10 amended: within one lifetime of the process get_or_create keeps the
\* session id of a (bot, user) and creates at most one session for it, the
\* Store holds exactly one row per session id and never drops a row; a
\* restart makes the next get_or_create create a session with a fresh id.
C10_OneSessionPerLifetime ==
    /\ [](/\ \A r1, r2 \in store_sessions :
                r1.session_id = r2.session_id => r1 = r2
          /\ \A c1, c2 \in created :
                (c1.sid = c2.sid
                 \/ (c1.bot = c2.bot /\ c1.user = c2.user /\ c1.epoch = c2.epoch))
                    => c1 = c2
          /\ \A b \in Bots : \A u \in DOMAIN sessions[b] :
                /\ \E r \in store_sessions :
                      r.session_id = sessions[b][u].session_id /\ r.user_id = u
                /\ \E c \in created :
                      /\ c.sid = sessions[b][u].session_id
                      /\ c.bot = b /\ c.user = u /\ c.epoch = epoch)
    /\ [][/\ epoch' = epoch =>
                \A b \in Bots : \A u \in DOMAIN sessions[b] :
                    /\ u \in DOMAIN sessions'[b]
                    /\ sessions'[b][u].session_id = sessions[b][u].session_id
          /\ \A r \in store_sessions :
                \E q \in store_sessions' : q.session_id = r.session_id]_vars

\* C10 witness: after a restart the pair was observed again: the manager
\* holds the new session and the Store holds the old row and the new one
C10_Witness ==
    \E c1, c2 \in created :
        /\ c1.bot = c2.bot /\ c1.user = c2.user /\ c1.epoch < c2.epoch
        /\ c2.user \in DOMAIN sessions[c2.bot]
        /\ sessions[c2.bot][c2.user].session_id = c2.sid
        /\ \E r1, r2 \in store_sessions :
              r1.session_id = c1.sid /\ r2.session_id = c2.sid

\* ---------------------------------------------------------------------------
\* The periodic tick and poll_external_results of one bot
\* ---------------------------------------------------------------------------
InitPoll == InitState /\ budget = MaxPollOps /\ rcfg = DefaultConfig

NextPoll ==
    \/ \E b \in Bots, u \in Users, c \in ChatIds : Authorized(b, u, c)
    \/ \E u \in Users, st \in {IDLE, RUNNING} : SetState(MainBot, u, st)
    \/ \E u \in Users, t \in Texts : SetLastResult(MainBot, u, t)
    \/ \E u \in Users, a \in BOOLEAN : PollExternalResults(MainBot, u, a)
    \/ \E u \in Users : SyncJsonlTick(MainBot, u)
    \/ \E t \in LogTexts : AppendRecord(MainBot, t)
    \/ Tick

SpecPoll == InitPoll /\ [][NextPoll]_vars

\* C11: a tick made while the user is running sends nothing, and once a
\* tick has been made with the user no longer running, every result that
\* the ticks read from the event log during the run has been sent to the chat.
C11_HeldBackNotDropped ==
    \A b \in Bots :
        /\ (tick_log[b].ticked /\ tick_log[b].running) => tick_log[b].sent = <<>>
        /\ (tick_log[b].ticked /\ ~tick_log[b].running) =>
              \A h \in tick_log[b].held :
                  \E i \in 1..Len(chat[b]) : hash_text(chat[b][i]) = h

\* C12: the first poll_external_results after a chat is bound returns no
\* message for a record that was in the event log when the chat was bound.
C12_HistoricalSuppression ==
    \A b \in Bots : bind_log[b].leaked = {}

\* C13: poll_external_results returns no record whose normalized content
\* hash is the hash of the session's last result or the last hash stored
\* for the session, and after it handled such a record the session's stored
\* cursor has a timestamp, not before that record's, and a hash.
C13_DedupAgainstLastResult ==
    \A i \in 1..Len(poll_out) :
        /\ ~poll_out[i].dup_sent
        /\ poll_out[i].dup_ts # None =>
              /\ poll_out[i].cursor[1] # None
              /\ poll_out[i].cursor[1] >= poll_out[i].dup_ts
              /\ poll_out[i].cursor[2] # None

\* ---------------------------------------------------------------------------
\* The event-log tailer
\* ---------------------------------------------------------------------------
SpecTail == Init /\ [][NextTail]_vars

\* C14: the tailer emits every line at most once and in append order, and
\* when the file it followed was deleted and a new one created, it skips no
\* line of the new file: every line before its read position in the new
\* file has been emitted.
C14_RecreatedFileTailed ==
    /\ \A i, j \in 1..Len(tail_out) : i < j => tail_out[i] < tail_out[j]
    /\ (tailer.handle /\ \E i \in tailer.followed : i < tailer.inode) =>
          \A k \in 1..tailer.offset :
              k <= Len(tail_files[tailer.inode]) =>
                  \E i \in 1..Len(tail_out) :
                      tail_out[i] = tail_files[tailer.inode][k]

\* ---------------------------------------------------------------------------
\* One run of the driver
\* ---------------------------------------------------------------------------
InitRun == InitState /\ budget = MaxOps /\ rcfg \in RunConfigs

SpecRun == InitRun /\ [][NextRun]_vars

\* C15: within one run on_output is never called twice with non-error texts
\* of equal normalized content hash, whichever worker produced them.
C15_NoDuplicateOutput ==
    \A i, j \in 1..Len(run_outputs) :
        (i < j /\ ~run_outputs[i].is_error /\ ~run_outputs[j].is_error)
            => digest_of(run_outputs[i].text) # digest_of(run_outputs[j].text)

Returned0 == runner.pc = "returned"

WatchdogTimeout ==
    \E i \in 1..Len(run_status) :
        run_status[i].token = "timeout" /\ run_status[i].src = "watchdog"

\* C16: when an idle watchdog forced the end of the run, run() returns 0
\* whatever the child's exit code; the final-result-idle path reports no
\* "timeout" and its termination notice comes after an output of the
\* recovered final message; the no-output-idle and post-compaction-idle
\* paths report "timeout".
C16_WatchdogOutcome ==
    runner.path # "none" =>
        /\ Returned0 => runner.result = 0
        /\ runner.path = "final" =>
              /\ ~WatchdogTimeout
              /\ \A j \in 1..Len(run_outputs) :
                    run_outputs[j].text = FINAL_NOTICE =>
                        \E i \in 1..(j - 1) :
                            /\ ~run_outputs[i].is_error
                            /\ digest_of(run_outputs[i].text)
                                   = digest_of(runner.recovered)
        /\ runner.path \in {"no_output", "compaction"} => WatchdogTimeout

\* C16 witness: the final-result-idle path ended a run whose child exited
\* with a non-zero code, and run() has returned
C16_Witness ==
    /\ runner.path = "final" /\ Returned0
    /\ runner.returncode \in {1, SIGTERM}
    /\ \E j \in 1..Len(run_outputs) : run_outputs[j].text = FINAL_NOTICE

\* the status the orchestrator gives the run: the last on_status token
status_override ==
    IF run_status = <<>> THEN "none" ELSE run_status[Len(run_status)].token

\* C17: when a watchdog terminated the child after it had recovered a final
\* message, the orchestrator records the run as DONE.
C17_RecoveredIsDone ==
    (runner.path # "none" /\ runner.recovered # None /\ Returned0)
        => classify(status_override, runner.result).status = DONE

\* ---------------------------------------------------------------------------
\* The splitters and the Chat Sender
\* ---------------------------------------------------------------------------
ChunkConfigs ==
    {[DefaultConfig EXCEPT !.message_chunk_limit = c] : c \in 1..MaxChunk}

InitSend == InitState /\ budget = MaxOps /\ rcfg \in ChunkConfigs

SpecSend == InitSend /\ [][NextSend]_vars

\* a list of chunks splits the text: each chunk is non-empty and at most
\* limit long, and the chunks concatenated in order are the text
Partitions(chunks, text, limit) ==
    /\ \A i \in 1..Len(chunks) : chunks[i] # <<>> /\ Len(chunks[i]) <= limit
    /\ Concat(chunks) = text

\* every message of the last send call, sent or edited, fits the limit
MessagesFit ==
    /\ \A i \in 1..Len(send_log.sent) :
          Len(send_log.sent[i].text) <= rcfg.message_chunk_limit
    /\ \A i \in 1..Len(send_log.edits) :
          Len(send_log.edits[i].text) <= rcfg.message_chunk_limit

\* C18: for every text and every chunk_limit >= 1 both splitters produce
\* chunks that are non-empty, at most chunk_limit long, and concatenate to
\* the text; every message the Chat Sender sends or edits is at most
\* chunk_limit long.
C18_ChunksPartitionText ==
    /\ split_log.applied =>
          /\ Partitions(split_log.broker, split_log.content,
                        rcfg.message_chunk_limit)
          /\ Partitions(split_log.sender, split_log.content,
                        rcfg.message_chunk_limit)
    /\ MessagesFit

\* C18 as the code has it: the same for every non-empty text; the empty text
\* is returned as one empty chunk by both splitters, and the Chat Sender
\* sends no empty message.
C18_ChunksPartitionNonEmptyText ==
    /\ (split_log.applied /\ split_log.content # <<>>) =>
          /\ Partitions(split_log.broker, split_log.content,
                        rcfg.message_chunk_limit)
          /\ Partitions(split_log.sender, split_log.content,
                        rcfg.message_chunk_limit)
    /\ (split_log.applied /\ split_log.content = <<>>) =>
          /\ split_log.broker = << <<>> >>
          /\ split_log.sender = << <<>> >>
    /\ MessagesFit
    /\ \A i \in 1..Len(send_log.sent) : send_log.sent[i].text # <<>>
    /\ \A i \in 1..Len(send_log.edits) : send_log.edits[i].text # <<>>

\* C18 witness: a text longer than the limit was split into several chunks
\* and a send call emitted a long text as several messages
C18_Witness ==
    /\ split_log.applied
    /\ Len(split_log.content) > rcfg.message_chunk_limit
    /\ Len(split_log.broker) >= 2 /\ Len(split_log.sender) >= 2
    /\ Len(send_log.sent) >= 2

\* C19: a non-empty text is appended by an edit of the current message to
\* prior text + newline + text exactly when that candidate fits the limit
\* and a current message exists, and the candidate is then the accumulated
\* text; otherwise the text alone goes out as new message(s) and the last
\* chunk becomes the current message and the accumulated text; an empty
\* text changes nothing and sends nothing.
C19_SendSemantics ==
    send_log.n > 0 =>
        LET p == send_log.prior
            t == send_log.text
            cand == p.full_text \o <<NL>> \o t
            appends == Len(cand) <= chunk_limit /\ p.message_id # None
            n == Len(send_log.sent)
        IN  /\ t = <<>> =>
                  sender = p /\ send_log.sent = <<>> /\ send_log.edits = <<>>
            /\ (t # <<>> /\ appends) =>
                  /\ send_log.edits = <<[message_id |-> p.message_id, text |-> cand]>>
                  /\ sender.full_text = cand
                  /\ ~send_log.rejected =>
                        send_log.sent = <<>> /\ sender.message_id = p.message_id
            /\ (t # <<>> /\ ~appends) =>
                  /\ send_log.edits = <<>>
                  /\ n >= 1
                  /\ Concat([i \in 1..n |-> send_log.sent[i].text]) = t
                  /\ sender = [message_id |-> send_log.sent[n].message_id,
                               full_text |-> send_log.sent[n].text]
                  /\ sender.message_id # p.message_id

\* C19 witness: a second send was appended by an edit of the first message
C19_Witness ==
    /\ send_log.n = 2
    /\ send_log.edits # <<>> /\ ~send_log.rejected
    /\ send_log.sent = <<>>
    /\ sender.message_id = 1

\* ---------------------------------------------------------------------------
\* The Stream Broker
\* ---------------------------------------------------------------------------
SpecBroker == InitSend /\ [][NextBroker]_vars

\* C20: when stop() has returned the buffer is empty, whatever pushes,
\* periodic flushes and worker activity went before the return.
C20_BufferEmptyAfterStop ==
    stopper.pc = "returned" => stopper.left = <<>>

\* a text without its newlines
RECURSIVE strip_newlines(_)
strip_newlines(text) ==
    IF text = <<>> THEN <<>>
    ELSE IF Head(text) = NL THEN strip_newlines(Tail(text))
    ELSE <<Head(text)>> \o strip_newlines(Tail(text))

\* the characters handed to the sender so far, in order
DeliveredText ==
    strip_newlines(Concat([i \in 1..Len(delivered) |-> delivered[i].chunk]))

\* the characters of the lines pushed before stop() was called, in order
RECURSIVE PushedBeforeStop(_)
PushedBeforeStop(log) ==
    IF log = <<>> THEN <<>>
    ELSE (IF Head(log).phase = "idle" THEN Head(log).line ELSE <<>>)
             \o PushedBeforeStop(Tail(log))

\* C21: when stop() has returned, the fragments pushed before stop() was
\* called have been handed to the sender exactly once and in push order:
\* what the sender received begins with exactly their characters.
C21_DeliveredOnceInOrder ==
    stopper.pc = "returned" =>
        LET pre == PushedBeforeStop(push_log)
        IN  /\ Len(DeliveredText) >= Len(pre)
            /\ SubSeq(DeliveredText, 1, Len(pre)) = pre

\* ---------------------------------------------------------------------------
\* Authorization
\* ---------------------------------------------------------------------------
AuthConfigs ==
    {[DefaultConfig EXCEPT !.telegram_allowed_user_ids = a] : a \in {{}, Users}}

InitAuth == InitState /\ budget = MaxOps /\ rcfg \in AuthConfigs

SpecAuth == InitAuth /\ [][NextAuth]_vars

\* C22: an update from a user outside the allow-list (any user when the
\* list is empty) causes no orchestrator call, not even the chat binding,
\* and changes no session, Store row or user context; it is answered with a
\* rejection notice.
C22_OutsidersCauseNothing ==
    \A i \in 1..Len(auth_log) :
        auth_log[i].user \notin rcfg.telegram_allowed_user_ids =>
            /\ auth_log[i].calls = <<>>
            /\ ~auth_log[i].changed
            /\ auth_log[i].notice \in {NOT_CONFIGURED_NOTICE, NOT_ALLOWED_NOTICE}

\* C22 witness: with a non-empty allow-list an allowed user's text was
\* submitted and an outsider's text was then rejected
C22_Witness ==
    \E i, j \in 1..Len(auth_log) :
        /\ i < j
        /\ auth_log[i].cmd = "text" /\ auth_log[i].calls # <<>>
        /\ auth_log[j].cmd = "text" /\ auth_log[j].notice = NOT_ALLOWED_NOTICE

\* C23: last_result delivers the session's last result, else the Store's,
\* else the event log's, else 'no result'; checked here for the run that
\* ends: when _run_once leaves broker.stop() holding a captured final
\* message, last_result delivers exactly that message from then on.
C23_FinalMessageIsLastResult ==
    [][\A t \in DOMAIN tasks :
          (/\ tasks[t].pc = "broker_stop"
           /\ tasks[t].final # None
           /\ tasks'[t].pc # "broker_stop")
              => last_result(MainBot, tasks[t].user)' = {tasks[t].final}]_vars

\* ---------------------------------------------------------------------------
\* The dedup normalization
\* ---------------------------------------------------------------------------
SpecNorm == Init /\ [][NextNorm]_vars

\* position i of text starts a line end: a CR, or an LF that is not the
\* second half of a CRLF
LineEndAt(text, i) ==
    \/ text[i] = CR
    \/ text[i] = NL /\ (i = 1 \/ text[i - 1] # CR)

\* text with the characters ins put in front of position i (at the end
\* for i = Len(text) + 1)
InsertAt(text, i, ins) ==
    SubSeq(text, 1, i - 1) \o ins \o SubSeq(text, i, Len(text))

\* the texts that differ from text in one line end (LF written as CRLF or
\* as CR), in one run of whitespace at the end of a line, or in one more
\* empty line at the end
Variants(text) ==
    LET n == Len(text)
        lone == {i \in 1..n : text[i] = NL /\ (i = 1 \/ text[i - 1] # CR)}
    IN  {InsertAt(text, i, <<CR>>) : i \in lone}
        \cup {[text EXCEPT ![i] = CR] : i \in {k \in lone : k = n \/ text[k + 1] # NL}}
        \cup {InsertAt(text, i, <<w>>) :
                 i \in {k \in 1..n : LineEndAt(text, k)} \cup {n + 1},
                 w \in Whitespace}
        \cup {text \o <<NL>>, text \o <<CR, NL>>}

\* C24: the normalization is idempotent, so a text and its normalized form
\* have the same digest, and texts that differ only in CRLF/CR versus LF
\* line ends, whitespace at line ends or empty lines at the end have the
\* same digest.
C24_NormalizeIdempotent ==
    fn_log.fn = "normalize" =>
        /\ normalize_text(fn_log.normalized) = fn_log.normalized
        /\ hash_of_text(fn_log.normalized) = fn_log.digest
        /\ \A y \in Variants(fn_log.text) : hash_of_text(y) = fn_log.digest

\* C24 witness: a text with a CRLF line end and whitespace before it was
\* normalized to something else
C24_Witness ==
    /\ fn_log.fn = "normalize"
    /\ fn_log.normalized # fn_log.text
    /\ fn_log.normalized # <<>>
    /\ \E i \in 2..(Len(fn_log.text) - 1) :
          /\ fn_log.text[i - 1] \in Whitespace
          /\ fn_log.text[i] = CR /\ fn_log.text[i + 1] = NL

\* ---------------------------------------------------------------------------
\* The child's command line
\* ---------------------------------------------------------------------------
SpecArgs == Init /\ [][NextArgs]_vars

\* C25: with a resume id in effect (the per-call id, else the configured
\* one) the argv is: command, "exec", "--skip-git-repo-check" if enabled,
\* "--output-last-message" and the path if one is given, the extra args,
\* "resume", the id, then "-" in stdin mode or the prompt in arg mode; and
\* exec mode is reported.
C25_ResumeArgv ==
    fn_log.fn = "build_args" =>
        LET c == fn_log.cfg
            id == IF fn_log.resume_id \notin {Absent, ""} THEN fn_log.resume_id
                  ELSE c.codex_cli_resume_id
            argv == fn_log.out.args
            k == 2 + (IF c.codex_cli_skip_git_check THEN 1 ELSE 0)
            m == k + (IF fn_log.path # Absent THEN 2 ELSE 0)
            n == m + Len(c.codex_cli_args)
        IN  id \notin {Absent, ""} =>
                /\ fn_log.out.use_exec
                /\ Len(argv) = n + 3
                /\ argv[1] = c.codex_cli_cmd /\ argv[2] = "exec"
                /\ c.codex_cli_skip_git_check => argv[3] = "--skip-git-repo-check"
                /\ fn_log.path # Absent =>
                      argv[k + 1] = "--output-last-message" /\ argv[k + 2] = fn_log.path
                /\ SubSeq(argv, m + 1, n) = c.codex_cli_args
                /\ argv[n + 1] = "resume" /\ argv[n + 2] = id
                /\ argv[n + 3] = IF c.codex_cli_input_mode = "stdin" THEN "-"
                                 ELSE fn_log.prompt

\* C25 witness: a per-call resume id overrode the configured one, with the
\* skip flag, a capture path and extra args present, in stdin mode
C25_Witness ==
    /\ fn_log.fn = "build_args"
    /\ fn_log.resume_id = "resume-override"
    /\ fn_log.cfg.codex_cli_resume_id = "resume-abc"
    /\ fn_log.out.args = <<"codex", "exec", "--skip-git-repo-check",
                           "--output-last-message", "/tmp/codex-last-message-1.txt",
                           "--model", "x", "resume", "resume-override", "-">>

\* ---------------------------------------------------------------------------
\* Agent-reasoning events
\* ---------------------------------------------------------------------------
SpecReasoning == Init /\ [][NextReasoning]_vars

\* C26: the text emitted for a reasoning event does not carry the reasoning
\* text: in one mode, any text that matches the same keyword groups and has
\* the same stripped length gives the same output, and hidden mode gives
\* the fixed notice for every text.
C26_ReasoningNotLeaked ==
    fn_log.fn = "reasoning" =>
        /\ fn_log.mode = "hidden" => fn_log.out = HIDDEN_NOTICE
        /\ \A y \in ReasoningTexts :
              (/\ matched(y) = matched(fn_log.text)
               /\ stripped_length(y) = stripped_length(fn_log.text))
                  => reasoning_output(fn_log.mode, y) = fn_log.out

\* C26 witness: in summary mode a text with a word outside every keyword
\* group, matching more than four groups, was summarized
C26_Witness ==
    /\ fn_log.fn = "reasoning" /\ fn_log.mode = "summary"
    /\ \E i \in 1..Len(fn_log.text) :
          fn_log.text[i] # <<>> /\ WordGroups[fn_log.text[i]] = {}
    /\ Cardinality(matched(fn_log.text)) > 4
    /\ Len(fn_log.out[2]) = 4

\* CodexRunner.run scheduled fairly: monotonic time passes and the event loop
\* runs every callback that is ready (the wait_for timeout, the wake-ups of
\* the watchdog and of the progress loop, the return after proc.wait()).
\* The exit of the child is not a step of the program: run() sends SIGTERM
\* (proc.terminate()) and never SIGKILL, so no fairness is put on ProcExit.
SpecRunLive ==
    /\ InitRun /\ [][NextRun]_vars
    /\ WF_vars(ClockTick) /\ WF_vars(MainTimeout) /\ WF_vars(MainReturn)
    /\ WF_vars(WatchdogCheck) /\ WF_vars(ProgressTick)

\* C27: once run_timeout_seconds has elapsed and the run reported "timeout"
\* and terminated the child, run() eventually returns; no run stays active
\* forever.
C27_TimedOutRunReturns ==
    (runner.pc = "timeout_wait") ~> (runner.pc = "returned")

\* the status the precedence of the claim gives to a runner call that
\* returned with this last status token and this exit code
ByPrecedence(token, rc) ==
    IF token = "timeout" THEN TIMEOUT
    ELSE IF token = "canceled" THEN CANCELED
    ELSE IF rc # 0 THEN ERROR
    ELSE DONE

\* the runner call of the task ended: it returned, it raised, or the
\* cancellation that reached the task inside the runner came out of it
RunnerCallEnded(t) ==
    /\ TaskDone(tasks, t) /\ HasRun(t)
    /\ \/ tasks[t].ended \in {"returned", "oserror"}
       \/ tasks[t].cancel_at \in {"in_runner", "runner_terminating"}

\* C28: a runner call that returned is classified by the precedence timeout,
\* canceled, non-zero exit code (detail "exit code N"), done; a cancellation
\* that came out of the runner gives CANCELED; every run that ended is
\* recorded with exactly one of the four terminal statuses.
C28_EveryEndedRunClassified ==
    /\ \A token \in {"none", "timeout", "canceled"}, rc \in {0, 1, SIGTERM} :
          /\ classify(token, rc).status = ByPrecedence(token, rc)
          /\ classify(token, rc).error = "exit_code"
                <=> (token = "none" /\ rc # 0)
    /\ \A t \in DOMAIN tasks :
          RunnerCallEnded(t) =>
             /\ RunRow(t).status \in TerminalStatuses
             /\ tasks[t].cancel_at \in {"in_runner", "runner_terminating"}
                   => RunRow(t).status = CANCELED

\* the positions in the history of run t of its events of one kind
At(kind, t) ==
    {i \in 1..Len(tasks[t].events) : tasks[t].events[i] = Event(kind, t)}
Precedes(I, J) == \A i \in I, j \in J : i < j

\* C29: per run the "started" status precedes every output chunk, every
\* output chunk (those of the broker's final flush too) precedes the summary,
\* the final message is stored as last result before the session returns to
\* IDLE, and a later run of the same user is announced only after the summary
\* of the run before it.
C29_ChatEventOrder ==
    \A t \in DOMAIN tasks :
        /\ \A i \in At("chunk", t) : \E j \in At("started", t) : j < i
        /\ Precedes(At("chunk", t), At("summary", t))
        /\ Precedes(At("last_result", t), At("idle", t))
        /\ (At("idle", t) # {} /\ tasks[t].final # None)
              => /\ At("last_result", t) # {}
                 /\ sessions[MainBot][tasks[t].user].last_result = tasks[t].final
        /\ \A t2 \in DOMAIN tasks :
              (t < t2 /\ tasks[t].user = tasks[t2].user /\ At("started", t2) # {})
                 => TaskDone(tasks, t) \/ At("summary", t) # {}

\* C29 witness: a run that showed started and a chunk, stored its final
\* message and sent its summary waits for the lock of its cleanup while the
\* next prompt of the user is submitted
C29_Witness ==
    \E t \in DOMAIN tasks :
        /\ tasks[t].events =
              <<Event("started", t), Event("chunk", t), Event("last_result", t),
                Event("idle", t), Event("summary", t)>>
        /\ Len(accepted[tasks[t].user]) > 1

\* C29 witness of the queue: the run started from the queue showed a chunk
\* after the run before it had returned
C29_WitnessNext ==
    \E t, t2 \in DOMAIN tasks :
        /\ t < t2 /\ tasks[t].user = tasks[t2].user
        /\ tasks[t].ended = "returned"
        /\ At("chunk", t2) # {}

\* CodexRunner.run seen from its capture file
SpecCapture == Init /\ [][NextCapture]_vars

\* C30: once run() has returned or raised, on the pipe and on the PTY channel
\* and on every exit path (child exit, watchdog, run timeout, cancellation,
\* failure to spawn the child), the temp file reserved for the final-message
\* capture is gone.
C30_TempFileRemoved ==
    capture.pc \in {"returned", "raised"} => capture.file = "missing"

\* the event log holds a record with this timestamp and this message
Logged(ts, message) ==
    \E i \in 1..Len(agent_final.log) :
        agent_final.log[i] = [timestamp |-> ts, message |-> message]

\* C31: a final message taken from the event log, by the idle watchdog or by
\* the recovery at the end of the run, is the message of a record whose
\* timestamp is at or after the start of the run; per run the watchdog looks
\* the event log up at most once and on_final is invoked at most once.
C31_LogFinalIsOfThisRun ==
    /\ runner.recovered_ts # None =>
          /\ runner.recovered_ts >= runner.run_started_at
          /\ Logged(runner.recovered_ts, runner.recovered)
    /\ runner.final_ts # None =>
          /\ runner.final_ts >= runner.run_started_at
          /\ Logged(runner.final_ts, runner.final_message)
    /\ (agent_final.file = None /\ agent_final.log = <<StaleRecord>>) =>
          runner.recovered = None /\ runner.final_message = None
    /\ runner.lookups <= 1
    /\ runner.on_final_calls <= 1

\* C31 witness: with the record of a previous run in the log, the watchdog
\* looked the log up and found nothing, and the recovery at the end of the
\* run took the message the agent logged later
C31_Witness ==
    /\ Returned0 /\ runner.lookups = 1 /\ runner.recovered = None
    /\ runner.final_ts # None /\ runner.on_final_calls = 1
    /\ Len(agent_final.log) > 1

\* ---------------------------------------------------------------------
\* C32: when run() has returned or raised after starting the child (normal
\* exit, run timeout, watchdog, cancellation), no worker task is still
\* running and on_output has not been invoked after that point
C32_WorkersStoppedAtEnd ==
    (capture.pc \in {"returned", "raised"} /\ capture.child # "none")
        => (capture.workers # "running" /\ ~capture.late)

\* C36: when run() returns, every line the child wrote to its standard
\* output before it exited has been forwarded to on_output
C36_OutputDrainedAtReturn ==
    capture.pc = "returned" => capture.read = capture.written

\* ---------------------------------------------------------------------
\* C33: when the transport rejects the edit of the current message, the
\* same send call sends the whole candidate text (prior text, newline, new
\* text) as one new message, which becomes the current message and the
\* accumulated text; the send call after it, when its candidate fits, edits
\* that new message and sends no message of its own.
C33_RejectedEditDowngraded ==
    LET p == send_log.prior
        cand == p.full_text \o <<NL>> \o send_log.text
    IN  /\ send_log.rejected =>
              /\ send_log.edits = <<[message_id |-> p.message_id, text |-> cand]>>
              /\ Len(send_log.sent) = 1
              /\ send_log.sent[1].text = cand
              /\ send_log.sent[1].message_id # p.message_id
              /\ sender = [message_id |-> send_log.sent[1].message_id,
                           full_text |-> cand]
        /\ (send_log.prev_fresh # None /\ send_log.text # <<>>
               /\ Len(cand) <= chunk_limit) =>
              /\ p.message_id = send_log.prev_fresh
              /\ send_log.edits = <<[message_id |-> send_log.prev_fresh,
                                     text |-> cand]>>
              /\ ~send_log.rejected =>
                    /\ send_log.sent = <<>>
                    /\ sender = [message_id |-> send_log.prev_fresh,
                                 full_text |-> cand]

\* C33 witness: the second send was rejected and went out as message 2, the
\* third send edited message 2
C33_Witness ==
    /\ send_log.n = 3
    /\ send_log.prev_fresh = 2
    /\ ~send_log.rejected
    /\ send_log.edits # <<>> /\ send_log.edits[1].message_id = 2
    /\ send_log.sent = <<>>
    /\ Len(sender.full_text) = 5

\* ---------------------------------------------------------------------------
\* The send-dedup window of one user under _should_send and
\* _record_stream_digest calls; fn_log holds the window (dedupe_hashes, in
\* insertion order) and the number of calls made on it
\* ---------------------------------------------------------------------------
\* TelegramAdapter._record_stream_digest on a non-empty stream buffer: the
\* digest's entry gets the current time, in place when it is there already
record_stream_digest(d, buffer) ==
    LET pruned == prune_dedupe(d)
        digest == hash_text(buffer)
    IN IF \E i \in 1..Len(pruned) : pruned[i].digest = digest
       THEN [i \in 1..Len(pruned) |->
                IF pruned[i].digest = digest
                THEN [digest |-> digest, ts |-> now] ELSE pruned[i]]
       ELSE Append(pruned, [digest |-> digest, ts |-> now])

\* the texts of the chunks that fill a window, and the texts sent afterwards
FillText(i) == 10 + i
LaterTexts == {FillText(1), FillText(DEDUP_MAX_ENTRIES + 1),
               FillText(DEDUP_MAX_ENTRIES + 2)}

\* _should_send called on the texts lo..hi, one after the other: on the
\* first half, then (the test on Len has the first half computed before the
\* second is begun) on the second half
RECURSIVE fill_range(_, _, _)
fill_range(d, lo, hi) ==
    IF lo > hi THEN d
    ELSE IF lo = hi THEN should_send(d, FillText(lo))[2]
    ELSE LET mid == (lo + hi) \div 2
             first == fill_range(d, lo, mid)
         IN IF Len(first) < 0 THEN first ELSE fill_range(first, mid + 1, hi)

\* k _should_send calls on k different texts
fill(d, k) == fill_range(d, 1, k)

\* a run streams k different chunks to the user
Fill(k) ==
    /\ fn_log.fn = "none"
    /\ fn_log' = [fn |-> "dedup", calls |-> 0, dedupe_hashes |-> fill(<<>>, k),
                  answer |-> TRUE]
    /\ UNCHANGED <<now, exceptDedup>>

ShouldSend(text) ==
    /\ fn_log.fn = "dedup" /\ fn_log.calls < MaxOps
    /\ LET r == should_send(fn_log.dedupe_hashes, text)
       IN fn_log' = [fn_log EXCEPT !.calls = @ + 1, !.dedupe_hashes = r[2],
                                   !.answer = r[1]]
    /\ UNCHANGED <<now, exceptDedup>>

RecordStreamDigest(buffer) ==
    /\ fn_log.fn = "dedup" /\ fn_log.calls < MaxOps
    /\ fn_log' = [fn_log EXCEPT
          !.calls = @ + 1,
          !.dedupe_hashes = record_stream_digest(fn_log.dedupe_hashes, buffer)]
    /\ UNCHANGED <<now, exceptDedup>>

\* time.time() moves on by a little more than half the TTL
DedupTick ==
    /\ fn_log.fn = "dedup"
    /\ now <= MaxTime * DEDUP_TTL_SECONDS
    /\ now' = now + (DEDUP_TTL_SECONDS \div 2) + 1
    /\ UNCHANGED <<fn_log, exceptDedup>>

NextDedup ==
    \/ \E k \in {0, DEDUP_MAX_ENTRIES - 1, DEDUP_MAX_ENTRIES} : Fill(k)
    \/ \E text \in LaterTexts : ShouldSend(text)
    \/ \E buffer \in LaterTexts : RecordStreamDigest(buffer)
    \/ DedupTick

SpecDedup == Init /\ [][NextDedup]_vars

\* C34: after any sequence of _should_send and _record_stream_digest calls
\* the window holds at most 256 entries
C34_WindowBounded ==
    fn_log.fn = "dedup" => Len(fn_log.dedupe_hashes) <= DEDUP_MAX_ENTRIES

\* C35: when stderr inclusion is off, no line the child wrote to its
\* standard error is pushed to the Stream Broker, on either channel
C35_StderrNotPushed ==
    ~capture.stream_include_stderr => ~capture.err_pushed

\* C37: a run works with the send_status and send_stream callbacks of the
\* submit_prompt call that brought its prompt, also when the prompt was
\* queued and the run was started from the queue
C37_OwnCallbacks ==
    \A t \in DOMAIN tasks :
        tasks[t].pc # "done" => tasks[t].callbacks = tasks[t].prompt

\* C38: every prompt a user submitted is in the message log exactly once
C38_RecordedOnce ==
    \A u \in DOMAIN accepted : \A i \in 1..Len(accepted[u]) :
        /\ accepted[u][i] \in DOMAIN store_messages
        /\ store_messages[accepted[u][i]] = 1

\* C39: in one process lifetime no step of a poll or of a chat binding makes
\* the stored cursor timestamp of a session smaller, and none sets a stored
\* cursor hash back to null
C39_CursorStep ==
    \A r \in store_sessions : \A r2 \in store_sessions' :
        r2.session_id = r.session_id =>
            /\ r.jsonl_last_ts # None =>
                  (r2.jsonl_last_ts # None /\ r2.jsonl_last_ts >= r.jsonl_last_ts)
            /\ r.jsonl_last_hash # None => r2.jsonl_last_hash # None

C39_CursorMonotone == [][C39_CursorStep]_vars

\* ---------------------------------------------------------------------------
\* poll_external_results with allow_send true on an event log whose file is
\* replaced; bind_log keeps the records returned so far (returned) and those
\* returned more than once (repeated), by their position in the log
\* ---------------------------------------------------------------------------
Counted(b, indices) ==
    [Polled(b, indices) EXCEPT
        ![b].returned = @ \cup indices,
        ![b].repeated = @ \cup (indices \cap bind_log[b].returned)]

PollSending(b, u) ==
    /\ CanServe(b, u)
    /\ \E row \in CursorRows(World(b), u) :
          LET r == poll_external_results(b, u, TRUE, World(b), row)
          IN AdapterApply(b, r.w,
                          <<[bot |-> b, user |-> u, kind |-> "cursor",
                             sid |-> row.session_id]>>,
                          [jsonl_states EXCEPT ![b] = r.js],
                          PollOut(b, u, r),
                          user_context, chat, tick_log, Counted(b, r.indices))

\* the event log file is replaced by a file with the same records (the
\* path resolves to a new inode)
RecreateFile(b) ==
    /\ jsonl_file[b].exists
    /\ jsonl_file[b].inode <= MaxRotations
    /\ jsonl_file' = [jsonl_file EXCEPT ![b].inode = @ + 1]
    /\ UNCHANGED <<now, sessions, next_sid, store_sessions, created, epoch,
                   lookup_log, ops, jsonl_states, poll_out, adapterVars,
                   orchVars, auxVars>>

NextCursor ==
    \/ \E u \in Users, c \in ChatIds : Authorized(MainBot, u, c)
    \/ \E u \in Users : PollSending(MainBot, u)
    \/ \E t \in Texts : AppendRecord(MainBot, t)
    \/ RecreateFile(MainBot)
    \/ Tick

SpecCursor == InitPoll /\ [][NextCursor]_vars

\* C40: no record of the event log is returned by more than one
\* poll_external_results call made with allow_send true
C40_ReturnedAtMostOnce ==
    \A b \in Bots : bind_log[b].repeated = {}

====
